---- MODULE Spec2Model ----
(***************************************************************************)
(* Dependency-tree modal of site/app.js: parseCycloneDX (tree building)    *)
(* and the expand/collapse/search overlay that renders the tree.           *)
(* The fetch-and-generate script (unnamed/part_000) is modelled in its own *)
(* sections: validation, slugs, the fetch functions and the SBOM files.    *)
(*                                                                         *)
(* Text values (names, versions, purls, bom-refs, ids, queries) are tuples *)
(* of one-character strings, so that concatenation, toLowerCase() and      *)
(* includes() are computed and not assumed.  A JavaScript `undefined` text *)
(* is the value Undefined; the empty tuple is the empty string.  Both are  *)
(* falsy, as in JavaScript.                                                *)
(*                                                                         *)
(* A tree is kept flat: a sequence of nodes in creation order, each with   *)
(* the index of its parent (the root is node 1, parent 0).  Children are   *)
(* pushed in creation order, so the children list of node p is the         *)
(* ascending list of indices whose parent is p.                            *)
(***************************************************************************)
EXTENDS Integers, Sequences, FiniteSets, TLC

\* ------------------------------------------------------------------ text

Undefined == <<"undefined">>

Truthy(t) == t # Undefined /\ t # << >>

\* a || b  on text values
Or(a, b) == IF Truthy(a) THEN a ELSE b

\* `${t}` : template-literal conversion of a text value
ToStr(t) == IF t = Undefined THEN <<"u", "n", "d", "e", "f", "i", "n", "e", "d">> ELSE t

DigitChar == <<"0", "1", "2", "3", "4", "5", "6", "7", "8", "9">>

RECURSIVE NumToStr(_)
NumToStr(n) ==
    IF n < 10 THEN <<DigitChar[n + 1]>>
    ELSE NumToStr(n \div 10) \o <<DigitChar[(n % 10) + 1]>>

UpperToLower ==
    [A |-> "a", B |-> "b", C |-> "c", D |-> "d", E |-> "e", F |-> "f", G |-> "g",
     H |-> "h", I |-> "i", J |-> "j", K |-> "k", L |-> "l", M |-> "m", N |-> "n",
     O |-> "o", P |-> "p", Q |-> "q", R |-> "r", S |-> "s", T |-> "t", U |-> "u",
     V |-> "v", W |-> "w", X |-> "x", Y |-> "y", Z |-> "z"]

toLowerCase(t) ==
    [i \in 1..Len(t) |-> IF t[i] \in DOMAIN UpperToLower THEN UpperToLower[t[i]] ELSE t[i]]

\* t.includes(q)
includes(t, q) ==
    \E i \in 0..(Len(t) - Len(q)) : \A j \in 1..Len(q) : t[i + j] = q[j]

\* ------------------------------------------------------------- documents

\* A component of components[] (or metadata.component); an absent field is Undefined.
Comp(purl, bomref, name, version, description) ==
    [purl |-> purl, bomref |-> bomref, name |-> name, version |-> version,
     description |-> description]

NoComp == Comp(Undefined, Undefined, Undefined, Undefined, Undefined)

\* An entry of dependencies[]; has_dependsOn is FALSE when the entry has no dependsOn.
Dep(ref, dependsOn) == [ref |-> ref, has_dependsOn |-> TRUE, dependsOn |-> dependsOn]
DepNoList(ref) == [ref |-> ref, has_dependsOn |-> FALSE, dependsOn |-> << >>]

\* An optional array field of the document: has is FALSE when the field is missing.
Arr(items) == [has |-> TRUE, items |-> items]
NoArr == [has |-> FALSE, items |-> << >>]

\* sbom.metadata: missing, present without component, or present with a component.
NoMetadata == [has |-> FALSE, has_component |-> FALSE, component |-> NoComp]
MetadataOnly == [has |-> TRUE, has_component |-> FALSE, component |-> NoComp]
Metadata(c) == [has |-> TRUE, has_component |-> TRUE, component |-> c]

Sbom(components, dependencies, metadata) ==
    [components |-> components, dependencies |-> dependencies, metadata |-> metadata]

\* ------------------------------------------------------ parseCycloneDX

Null == <<"null">>

Falsy(t) == t = Null \/ ~Truthy(t)

maxDepth == 10

fallbackLimit == 100

RootId == <<"r", "o", "o", "t">>

RootPackage == <<"R", "o", "o", "t", " ", "P", "a", "c", "k", "a", "g", "e">>

Unknown == <<"u", "n", "k", "n", "o", "w", "n">>

\* Mutant of Components: no default for a missing array.
ComponentsNoDefault(sbom) == sbom.components

\* const components = sbom.components || [];
Components(sbom) == IF sbom.components.has THEN sbom.components ELSE Arr(<< >>)

\* const dependencies = sbom.dependencies || [];
Dependencies(sbom) == IF sbom.dependencies.has THEN sbom.dependencies ELSE Arr(<< >>)

\* Mutant of ComponentKey: the bom-ref is preferred to the purl.
ComponentKeyBomRefFirst(comp) == Or(Or(comp.bomref, comp.purl), comp.name)

\* comp.purl || comp['bom-ref'] || comp.name
ComponentKey(comp) == Or(Or(comp.purl, comp.bomref), comp.name)

\* comp.version || 'unknown'
VersionOrUnknown(comp) == Or(comp.version, Unknown)

\* The value componentMap.set stores for a component.
MapEntry(comp) ==
    [name |-> comp.name, version |-> VersionOrUnknown(comp), purl |-> comp.purl,
     description |-> comp.description]

\* componentMap after components.forEach(comp => componentMap.set(key, entry)): the
\* keys of all components, each bound to the entry of the last component with that key.
ComponentMapOf(items) ==
    LET keyOf(i) == ComponentKey(items[i])
        lastWith(k) == CHOOSE i \in 1..Len(items) :
                          keyOf(i) = k /\ \A j \in (i + 1)..Len(items) : keyOf(j) # k
    IN [k \in {keyOf(i) : i \in 1..Len(items)} |-> MapEntry(items[lastWith(k)])]

componentMap(sbom) == ComponentMapOf(Components(sbom).items)

\* componentMap.get(ref): defined is FALSE when the Map has no such key.
MapGet(sbom, ref) ==
    IF ref \in DOMAIN componentMap(sbom)
    THEN [defined |-> TRUE, value |-> componentMap(sbom)[ref]]
    ELSE [defined |-> FALSE, value |-> MapEntry(NoComp)]

\* Mutant of NotComponent: the test for a missing component dropped.
NotComponentNever(component) == FALSE

\* if (!component) return null;
NotComponent(component) == ~component.defined

\* rootRef after the metadata step
RootRefFromMetadata(sbom) ==
    IF sbom.metadata.has /\ sbom.metadata.has_component
    THEN ComponentKey(sbom.metadata.component)
    ELSE Null

\* Mutant of rootRef: the first dependencies[] entry is preferred to the metadata.
rootRefDependenciesFirst(sbom) ==
    LET ds == Dependencies(sbom).items
        cs == Components(sbom).items
        r1 == IF Len(ds) > 0 THEN ds[1].ref ELSE Null
        r2 == IF Falsy(r1) THEN RootRefFromMetadata(sbom) ELSE r1
    IN IF Falsy(r2) /\ Len(cs) > 0 THEN ComponentKey(cs[1]) ELSE r2

\* rootRef after the three steps
rootRef(sbom) ==
    LET deps == Dependencies(sbom).items
        comps == Components(sbom).items
        r1 == RootRefFromMetadata(sbom)
        r2 == IF Falsy(r1) /\ Len(deps) > 0 THEN deps[1].ref ELSE r1
    IN IF Falsy(r2) /\ Len(comps) > 0 THEN ComponentKey(comps[1]) ELSE r2

\* sbom.metadata?.component?.name  (and .version)
MetadataField(sbom, field) ==
    IF sbom.metadata.has /\ sbom.metadata.has_component
    THEN sbom.metadata.component[field]
    ELSE Undefined

RootNode(sbom, productName, version) ==
    [name |-> Or(Or(MetadataField(sbom, "name"), productName), RootPackage),
     version |-> Or(Or(MetadataField(sbom, "version"), version), << >>),
     type |-> "root", depth |-> 0, purl |-> Undefined, description |-> Undefined,
     parent |-> 0, id |-> RootId, ref |-> rootRef(sbom)]

\* dependencies.find(d => d.ref === ref): index of the first such entry, 0 when none
FindDep(deps, ref) ==
    IF \E i \in 1..Len(deps) : deps[i].ref = ref
    THEN CHOOSE i \in 1..Len(deps) :
            deps[i].ref = ref /\ \A j \in 1..(i - 1) : deps[j].ref # ref
    ELSE 0

\* `${component.name}@${component.version}-${depth}`
GraphNodeId(name, version, depth) ==
    ToStr(name) \o <<"@">> \o ToStr(version) \o <<"-">> \o NumToStr(depth)

\* Mutant of FallbackNodeId: no index after the depth.
FallbackNodeIdNoIndex(comp, i) ==
    ToStr(comp.name) \o <<"@">> \o ToStr(VersionOrUnknown(comp)) \o <<"-", "1">>

\* `${comp.name}@${comp.version || 'unknown'}-1-${i}`   (i is zero-based)
FallbackNodeId(comp, i) ==
    ToStr(comp.name) \o <<"@">> \o ToStr(VersionOrUnknown(comp)) \o <<"-", "1", "-">> \o NumToStr(i)

\* Mutants of Rejects: the processed-set test dropped, the depth test dropped.
RejectsDepthOnly(depth, ref, processedRefs) == depth > maxDepth

RejectsProcessedOnly(depth, ref, processedRefs) == ref \in processedRefs

\* if (depth > maxDepth || processedRefs.has(ref)) return null;
Rejects(depth, ref, processedRefs) == depth > maxDepth \/ ref \in processedRefs

\* The node buildTree creates from the component found for ref.
GraphNode(component, ref, depth, parent) ==
    [name |-> component.name, version |-> component.version,
     type |-> IF depth = 1 THEN "direct" ELSE "transitive",
     depth |-> depth, purl |-> component.purl, description |-> component.description,
     parent |-> parent,
     id |-> GraphNodeId(component.name, component.version, depth),
     ref |-> ref]

\* The node the fallback creates for components[i + 1].
FallbackNode(comp, i) ==
    [name |-> comp.name, version |-> VersionOrUnknown(comp), type |-> "direct",
     depth |-> 1, purl |-> comp.purl, description |-> comp.description,
     parent |-> 1, id |-> FallbackNodeId(comp, i), ref |-> ComponentKey(comp)]

\* Mutant of FallbackSlice: every component, no slice.
FallbackNoSlice(items) == items

\* components.slice(0, 100)
FallbackSlice(items) == SubSeq(items, 1, IF Len(items) < fallbackLimit THEN Len(items) ELSE fallbackLimit)

\* The indices of the children of node p, in children-list order.
ChildrenOf(nodes, p) == {i \in 1..Len(nodes) : nodes[i].parent = p}

\* A frame of the walk: the forEach over `list` that fills the children of `node`,
\* about to visit list[i]; its buildTree calls are made at `depth`.
Frame(node, list, depth) == [node |-> node, list |-> list, i |-> 1, depth |-> depth]

\* The state of one parseCycloneDX call.  calls counts the buildTree invocations and
\* usedFallback records that the fallback loop (line 1176) ran.
BuildStart ==
    [pc |-> "start", error |-> FALSE, nodes |-> << >>, processedRefs |-> {},
     stack |-> << >>, calls |-> 0, usedFallback |-> FALSE]

\* Lines 1089-1125: the arrays, the index, the root reference and the root node.
\* forEach / length on a value that is not an array raises a TypeError.
StepStart(in, b) ==
    IF ~Components(in.sbom).has \/ ~Dependencies(in.sbom).has
    THEN [b EXCEPT !.pc = "raised", !.error = TRUE]
    ELSE [b EXCEPT !.pc = "expand",
                   !.nodes = <<RootNode(in.sbom, in.productName, in.version)>>]

\* Lines 1163-1165: find the root's dependency entry and start its forEach.
StepExpand(in, b) ==
    LET deps == Dependencies(in.sbom).items
        k == FindDep(deps, rootRef(in.sbom))
    IN IF Len(deps) > 0 /\ k # 0 /\ deps[k].has_dependsOn
       THEN [b EXCEPT !.pc = "walk", !.stack = <<Frame(1, deps[k].dependsOn, 1)>>]
       ELSE [b EXCEPT !.pc = "fallback"]

\* One buildTree(ref, depth) call up to the start of its own forEach (lines 1129-1151),
\* made by the forEach of the top frame.  Reading a field of an undefined component
\* raises a TypeError, which ends parseCycloneDX.
StepCall(in, b) ==
    LET top == b.stack[Len(b.stack)]
        ref == top.list[top.i]
        depth == top.depth
        component == MapGet(in.sbom, ref)
        deps == Dependencies(in.sbom).items
        k == FindDep(deps, ref)
        adv == [b.stack EXCEPT ![Len(b.stack)].i = top.i + 1]
        called == [b EXCEPT !.calls = b.calls + 1]
    IN IF Rejects(depth, ref, b.processedRefs)
       THEN [called EXCEPT !.stack = adv]
       ELSE IF NotComponent(component)
       THEN [called EXCEPT !.stack = adv, !.processedRefs = b.processedRefs \cup {ref}]
       ELSE IF ~component.defined
       THEN [called EXCEPT !.pc = "raised", !.error = TRUE,
                           !.processedRefs = b.processedRefs \cup {ref}]
       ELSE [called EXCEPT
               !.processedRefs = b.processedRefs \cup {ref},
               !.nodes = Append(b.nodes, GraphNode(component.value, ref, depth, top.node)),
               !.stack = IF k # 0 /\ deps[k].has_dependsOn
                         THEN Append(adv, Frame(Len(b.nodes) + 1, deps[k].dependsOn, depth + 1))
                         ELSE adv]

\* The forEach of the top frame is exhausted: buildTree returns its node (or the
\* root's forEach ends, lines 1166-1173).
StepReturn(in, b) ==
    IF Len(b.stack) = 1
    THEN [b EXCEPT !.stack = << >>, !.pc = "fallback"]
    ELSE [b EXCEPT !.stack = SubSeq(b.stack, 1, Len(b.stack) - 1)]

\* Lines 1175-1191: the flat fallback, then return root.
StepFallback(in, b) ==
    LET comps == Components(in.sbom).items
        slice == FallbackSlice(comps)
    IN IF ChildrenOf(b.nodes, 1) = {} /\ Len(comps) > 0
       THEN [b EXCEPT !.pc = "done", !.usedFallback = TRUE,
                      !.nodes = b.nodes \o [i \in 1..Len(slice) |-> FallbackNode(slice[i], i - 1)]]
       ELSE [b EXCEPT !.pc = "done"]

CallPending(b) ==
    b.pc = "walk" /\ b.stack[Len(b.stack)].i <= Len(b.stack[Len(b.stack)].list)

BuildStep(in, b) ==
    CASE b.pc = "start" -> StepStart(in, b)
      [] b.pc = "expand" -> StepExpand(in, b)
      [] b.pc = "walk" /\ CallPending(b) -> StepCall(in, b)
      [] b.pc = "walk" /\ ~CallPending(b) -> StepReturn(in, b)
      [] b.pc = "fallback" -> StepFallback(in, b)
      [] OTHER -> b

BuildEnded(b) == b.pc \in {"done", "raised"}

RECURSIVE RunBuild(_, _)
RunBuild(in, b) == IF BuildEnded(b) THEN b ELSE RunBuild(in, BuildStep(in, b))

\* parseCycloneDX(sbom, productName, version): the build state at its end.
parseCycloneDX(sbom, productName, version) ==
    RunBuild([sbom |-> sbom, productName |-> productName, version |-> version], BuildStart)

\* ------------------------------------------------- search and rendering

\* getNodeId(node)
getNodeId(node) ==
    IF Truthy(node.id) THEN node.id
    ELSE ToStr(node.name) \o <<"@">> \o ToStr(node.version) \o <<"-">> \o NumToStr(node.depth)

\* The children list of node p: the indices of its children in ascending order.
ChildSeq(nodes, p) ==
    LET S == ChildrenOf(nodes, p)
    IN [k \in 1..Cardinality(S) |-> CHOOSE x \in S : Cardinality({y \in S : y < x}) = k - 1]

\* value.trim() for the space character
RECURSIVE trim(_)
trim(t) ==
    IF t = << >> THEN t
    ELSE IF Head(t) = " " THEN trim(Tail(t))
    ELSE IF t[Len(t)] = " " THEN trim(SubSeq(t, 1, Len(t) - 1))
    ELSE t

\* matchesTreeSearch(node) under query q: "true", "false", or "raise" when
\* node.name.toLowerCase() is called on an undefined name (a TypeError).
matchesTreeSearch(node, q) ==
    IF ~Truthy(q) THEN "true"
    ELSE IF node.name = Undefined THEN "raise"
    ELSE IF \/ includes(toLowerCase(node.name), q)
            \/ Truthy(node.version) /\ includes(toLowerCase(node.version), q)
            \/ Truthy(node.description) /\ includes(toLowerCase(node.description), q)
         THEN "true" ELSE "false"

\* hasMatchingChild(node): the for loop over the children from position j, each tested
\* with matchesTreeSearch(child) || hasMatchingChild(child); the first "true" or
\* "raise" ends the loop.
RECURSIVE hasMatchingChildFrom(_, _, _, _)
hasMatchingChildFrom(nodes, q, kids, j) ==
    IF j > Len(kids) THEN "false"
    ELSE LET m == matchesTreeSearch(nodes[kids[j]], q)
         IN IF m # "false" THEN m
            ELSE LET h == hasMatchingChildFrom(nodes, q, ChildSeq(nodes, kids[j]), 1)
                 IN IF h # "false" THEN h
                    ELSE hasMatchingChildFrom(nodes, q, kids, j + 1)

hasMatchingChild(nodes, q, i) == hasMatchingChildFrom(nodes, q, ChildSeq(nodes, i), 1)

\* expandMatchingPaths(node i) on the expanded set st.expanded; st.raised is set, and
\* the walk abandoned, when a match test raises.
RECURSIVE expandMatchingPaths(_, _, _, _)
RECURSIVE expandMatchingPathsEach(_, _, _, _, _)
expandMatchingPaths(nodes, q, i, st) ==
    LET m == matchesTreeSearch(nodes[i], q)
        id == getNodeId(nodes[i])
        st1 == IF m = "true" THEN [st EXCEPT !.expanded = st.expanded \cup {id}] ELSE st
        kids == ChildSeq(nodes, i)
        hasMatch == hasMatchingChildFrom(nodes, q, kids, 1)
    IN IF m = "raise" THEN [st EXCEPT !.raised = TRUE]
       ELSE IF kids = << >> THEN st1
       ELSE IF hasMatch = "raise" THEN [st1 EXCEPT !.raised = TRUE]
       ELSE IF hasMatch = "true"
       THEN expandMatchingPathsEach(nodes, q, kids, 1,
                                    [st1 EXCEPT !.expanded = st1.expanded \cup {id}])
       ELSE st1

\* node.children.forEach(expandMatchingPaths) from position j
expandMatchingPathsEach(nodes, q, kids, j, st) ==
    IF j > Len(kids) \/ st.raised THEN st
    ELSE expandMatchingPathsEach(nodes, q, kids, j + 1,
                                 expandMatchingPaths(nodes, q, kids[j], st))

\* Mutant of Suppressed: a node is kept only when one of its descendants matches.
SuppressedUnlessChildMatches(q, nodeMatches, childMatches) ==
    Truthy(q) /\ childMatches = "false"

\* if (treeSearchQuery && !nodeMatches && !childMatches) return '';
Suppressed(q, nodeMatches, childMatches) ==
    Truthy(q) /\ nodeMatches = "false" /\ childMatches = "false"

\* renderTreeNode(node i): the rows emitted for the subtree, added to out.rows;
\* out.raised is set, and the walk abandoned, when a match test raises.
RECURSIVE renderTreeNode(_, _, _, _, _)
RECURSIVE renderTreeNodeEach(_, _, _, _, _, _)
renderTreeNode(nodes, expanded, q, i, out) ==
    LET isExpanded == getNodeId(nodes[i]) \in expanded
        kids == ChildSeq(nodes, i)
        nodeMatches == matchesTreeSearch(nodes[i], q)
        childMatches == IF nodeMatches = "raise" THEN "raise"
                        ELSE hasMatchingChildFrom(nodes, q, kids, 1)
    IN IF nodeMatches = "raise" \/ childMatches = "raise" THEN [out EXCEPT !.raised = TRUE]
       ELSE IF Suppressed(q, nodeMatches, childMatches) THEN out
       ELSE IF kids # << >> /\ isExpanded
       THEN renderTreeNodeEach(nodes, expanded, q, kids, 1,
                               [out EXCEPT !.rows = out.rows \cup {i}])
       ELSE [out EXCEPT !.rows = out.rows \cup {i}]

\* node.children.forEach(child => html += renderTreeNode(child, level + 1)) from j
renderTreeNodeEach(nodes, expanded, q, kids, j, out) ==
    IF j > Len(kids) \/ out.raised THEN out
    ELSE renderTreeNodeEach(nodes, expanded, q, kids, j + 1,
                            renderTreeNode(nodes, expanded, q, kids[j], out))

\* What #tree-content shows: the rows of the nodes `rows` of the tree `tree`.
Rows(tree, rows) == [tree |-> tree, rows |-> rows]

NoRows == Rows(<< >>, {})

\* Mutant of AutoExpands: the pinned flag is not read.
AutoExpandsPinnedToo(q, pinned) == Truthy(q)

\* if (treeSearchQuery && !userExpandedAll)
AutoExpands(q, pinned) == Truthy(q) /\ ~pinned

\* renderTree() with treeData = tree (<< >> is null), the expanded set, the query,
\* the pinned flag and the rows shown before: the expanded set and the rows after,
\* and whether it raised.  A raise leaves container.innerHTML as it was.
renderTree(tree, expanded, q, pinned, shownRows) ==
    IF tree = << >> THEN [expanded |-> expanded, rendered |-> NoRows, raised |-> FALSE]
    ELSE LET st == IF AutoExpands(q, pinned)
                   THEN expandMatchingPaths(tree, q, 1, [expanded |-> expanded, raised |-> FALSE])
                   ELSE [expanded |-> expanded, raised |-> FALSE]
             out == renderTreeNode(tree, st.expanded, q, 1, [rows |-> {}, raised |-> FALSE])
         IN IF st.raised THEN [expanded |-> st.expanded, rendered |-> shownRows, raised |-> TRUE]
            ELSE IF out.raised
            THEN [expanded |-> st.expanded, rendered |-> shownRows, raised |-> TRUE]
            ELSE [expanded |-> st.expanded, rendered |-> Rows(tree, out.rows), raised |-> FALSE]

\* buildTreeSearchSuggestions(): the text of every suggestion, one per node below the
\* root (suggestions that differ only in version share their text).
SuggestionsOf(tree) == {tree[i].name : i \in 2..Len(tree)}

\* showTreeSuggestions(query) with the suggestion texts sugg: the texts displayed, or
\* "raise" when s.text.toLowerCase() is called on an undefined text.
showTreeSuggestions(sugg, query) ==
    IF Undefined \in sugg THEN [raised |-> TRUE, shown |-> {}]
    ELSE [raised |-> FALSE,
          shown |-> {t \in sugg : includes(toLowerCase(t), toLowerCase(query))}]

\* ------------------------------------------------------ stats and export

\* Mutant of StatsRoots: the walk starts at the root itself.
StatsRootsWithRoot(nodes) == <<1>>

\* tree.children.forEach(countNodes): the nodes the count starts from
StatsRoots(nodes) == ChildSeq(nodes, 1)

Counters(total, direct, transitive) ==
    [total |-> total, direct |-> direct, transitive |-> transitive]

\* countNodes(node) for the nodes kids[lo..hi] in turn: what the calls add to the three
\* counters.  The list is split in halves so that a long child list does not nest deep.
RECURSIVE countNodesEach(_, _, _, _)
countNodesEach(nodes, kids, lo, hi) ==
    IF lo > hi THEN Counters(0, 0, 0)
    ELSE IF lo = hi
    THEN LET node == nodes[kids[lo]]
             below == ChildSeq(nodes, kids[lo])
             c == countNodesEach(nodes, below, 1, Len(below))
         IN Counters(1 + c.total,
                     (IF node.type = "direct" THEN 1 ELSE 0) + c.direct,
                     (IF node.type = "transitive" THEN 1 ELSE 0) + c.transitive)
    ELSE LET mid == (lo + hi) \div 2
             l == countNodesEach(nodes, kids, lo, mid)
             r == countNodesEach(nodes, kids, mid + 1, hi)
         IN Counters(l.total + r.total, l.direct + r.direct, l.transitive + r.transitive)

\* updateTreeStats(tree): the three counters written to the stats bar
updateTreeStats(nodes) == countNodesEach(nodes, StatsRoots(nodes), 1, Len(StatsRoots(nodes)))

\* Mutant of ExportStart: only the subtrees of the root's children are exported.
ExportStartBelowRoot(nodes) == ChildSeq(nodes, 1)

\* exportNode(treeData): the export starts at the root
ExportStart(nodes) == <<1>>

\* exportNode(node, prefix, isLast) for the nodes kids[j..], the last of them with
\* isLast: the lines appended to text, one per node.  "L-- ", "+-- " and "|   " stand for
\* the box-drawing connectors of lines 1561-1562.
RECURSIVE exportNodeEach(_, _, _, _)
exportNodeEach(nodes, kids, j, prefix) ==
    IF j > Len(kids) THEN << >>
    ELSE LET node == nodes[kids[j]]
             isLast == j = Len(kids)
             connector == IF isLast THEN "L-- " ELSE "+-- "
             childPrefix == IF isLast THEN "    " ELSE "|   "
             line == prefix \o <<connector>> \o ToStr(node.name)
                     \o (IF Truthy(node.version) THEN <<"@">> \o node.version ELSE << >>)
         IN <<line>>
            \o exportNodeEach(nodes, ChildSeq(nodes, kids[j]), 1, prefix \o <<childPrefix>>)
            \o exportNodeEach(nodes, kids, j + 1, prefix)

\* The text exportTree builds: its lines.
ExportText(nodes) == exportNodeEach(nodes, ExportStart(nodes), 1, << >>)

\* Mutant of ExportLines: below a collapsed root nothing is exported.
ExportLinesOfExpanded(nodes, expanded, pinned, q) ==
    IF RootId \in expanded THEN ExportText(nodes) ELSE <<Head(ExportText(nodes))>>

\* The lines exportTree writes for the tree while the overlay is (expandedNodes,
\* userExpandedAll, treeSearchQuery): exportNode reads node.name, node.version and
\* node.children and none of the three.
ExportLines(nodes, expanded, pinned, q) == ExportText(nodes)

\* Mutant of TreeAfterRender: the pass drops the last leaf of the tree.
TreeAfterRenderPruned(tree) ==
    IF Len(tree) > 1 THEN SubSeq(tree, 1, Len(tree) - 1) ELSE tree

\* The tree after renderTree(): expandMatchingPaths and renderTreeNode read the nodes
\* and their children and assign to none of them.
TreeAfterRender(tree) == tree

\* `${productName}-${version}-dependency-tree.txt`
FileName(productName, version) ==
    ToStr(productName) \o <<"-">> \o ToStr(version) \o <<"-dependency-tree.txt">>

\* ------------------------------------------- fetch-and-generate (shell)

\* The script is unnamed/part_000.  Text is a tuple of one-character strings, as above;
\* a message the script echoes is a tuple of one string, which holds no "|".

Letters == DOMAIN UpperToLower \cup {UpperToLower[c] : c \in DOMAIN UpperToLower}

\* tr -cd 'a-zA-Z0-9 .-'
SlugChars == Letters \cup {DigitChar[k] : k \in 1..10} \cup {" ", ".", "-"}

\* tr ' ' '-'
SpacesToHyphens(t) == [k \in 1..Len(t) |-> IF t[k] = " " THEN "-" ELSE t[k]]

\* sed 's/^-*//'
RECURSIVE StripLeadingHyphens(_)
StripLeadingHyphens(t) ==
    IF t # << >> /\ Head(t) = "-" THEN StripLeadingHyphens(Tail(t)) ELSE t

\* sed 's/-*$//'
RECURSIVE StripTrailingHyphens(_)
StripTrailingHyphens(t) ==
    IF t # << >> /\ t[Len(t)] = "-" THEN StripTrailingHyphens(SubSeq(t, 1, Len(t) - 1))
    ELSE t

\* sed 's/--*/-/g'
RECURSIVE SqueezeHyphens(_)
SqueezeHyphens(t) ==
    IF Len(t) < 2 THEN t
    ELSE IF t[1] = "-" /\ t[2] = "-" THEN SqueezeHyphens(Tail(t))
    ELSE <<t[1]>> \o SqueezeHyphens(Tail(t))

\* sanitize_slug "$name"
sanitize_slug(name) ==
    SqueezeHyphens(StripTrailingHyphens(StripLeadingHyphens(SpacesToHyphens(
        toLowerCase(SelectSeq(name, LAMBDA c : c \in SlugChars))))))

DotDot == <<".", ".">>

startsWith(t, p) == Len(t) >= Len(p) /\ SubSeq(t, 1, Len(p)) = p

endsWith(t, p) == Len(t) >= Len(p) /\ SubSeq(t, Len(t) - Len(p) + 1, Len(t)) = p

\* [[ "$name" =~ \.\./|\.\.$ || "$name" =~ ^\.\. ]]
HasTraversal(name) ==
    \/ includes(name, DotDot \o <<"/">>)
    \/ endsWith(name, DotDot)
    \/ startsWith(name, DotDot)

NullText == <<"n", "u", "l", "l">>

SourceTypes == {"s3", "maven", "artifactory"}

\* A product of products.yml.  max_versions and the fields its source type requires are
\* present and valid in every product of the model.
Product(name, source) == [name |-> name, source |-> source]

\* validate_product "$i" seen_names: the exit code, or 0 when the product passes.  The
\* checks of max_versions (line 69) and of the source-specific fields (lines 96-128)
\* pass for every product of the model.
validate_product(p, seen) ==
    IF p.name = NullText \/ p.name = << >> THEN 1
    ELSE IF p.source \notin SourceTypes THEN 1
    ELSE IF HasTraversal(p.name) THEN 1
    ELSE IF \E k \in 1..Len(seen) : seen[k] = p.name THEN 1
    ELSE 0

\* A location below docs/, as the list of its path components; "." and an empty
\* component name the directory itself and ".." the one above it.
RECURSIVE Normalize(_)
Normalize(path) ==
    IF path = << >> THEN << >>
    ELSE LET front == Normalize(SubSeq(path, 1, Len(path) - 1))
             c == path[Len(path)]
         IN IF c = << >> \/ c = <<".">> THEN front
            ELSE IF c = DotDot THEN (IF front = << >> THEN << >>
                                     ELSE SubSeq(front, 1, Len(front) - 1))
            ELSE Append(front, c)

Sboms == <<"s", "b", "o", "m", "s">>

SpdxFile == <<"sbom.spdx.json">>

CycloneDxFile == <<"sbom.cyclonedx.json">>

MetadataFile == <<"metadata.json">>

\* "$SBOM_DIR/$slug"
ProductDir(slug) == Normalize(<<Sboms, slug>>)

\* "$SBOM_DIR/$product_slug/$version/<file>"
SbomPath(slug, version, file) == Normalize(<<Sboms, slug, version, file>>)

\* "$SBOM_DIR/$product_slug/metadata.json"
MetadataPath(slug) == Normalize(<<Sboms, slug, MetadataFile>>)

IsSbomFile(path) == path # << >> /\ path[Len(path)] \in {SpdxFile, CycloneDxFile}

\* find "$SBOM_DIR/$slug" -mindepth 2 -name "sbom.*.json" | wc -l  is greater than 0
HasExistingSboms(files, slug) ==
    \E f \in files :
        /\ IsSbomFile(f)
        /\ Len(f) >= Len(ProductDir(slug)) + 2
        /\ SubSeq(f, 1, Len(ProductDir(slug))) = ProductDir(slug)

\* "$TEMP_DIR/$slug-$version-<file name>"
DownloadPath(slug, version) ==
    <<"t", "e", "m", "p", "/">> \o slug \o <<"-">> \o version \o <<"-", "f">>

\* echo "$download_path|$version"
ArtifactLine(slug, version) == DownloadPath(slug, version) \o <<"|">> \o version

\* The messages fetch_s3 echoes without >&2: lines 161, 182, 217 and 218.
MsgUrlUnset == <<"ERROR: S3_PUBLIC_URL must be set">>

MsgCannotList == <<"  Cannot list bucket anonymously. Trying known version pattern...">>

MsgNoVersionList ==
    <<"ERROR: Cannot list S3 bucket anonymously and no version_list provided">>

MsgAddVersionList == <<"  Add 'version_list' to products.yml with known version numbers">>

\* The index of the first "|" of the line, or 0.
RECURSIVE FirstBar(_, _)
FirstBar(line, k) ==
    IF k > Len(line) THEN 0 ELSE IF line[k] = "|" THEN k ELSE FirstBar(line, k + 1)

\* IFS='|' read -r artifact_path version
ReadLine(line) ==
    LET k == FirstBar(line, 1)
    IN IF k = 0 THEN [artifact_path |-> line, version |-> << >>]
       ELSE [artifact_path |-> SubSeq(line, 1, k - 1),
             version |-> SubSeq(line, k + 1, Len(line))]

\* ------------------------------------------- fetch-and-generate: the run

\* Bound of the configurations: the number of products of products.yml.
MaxProducts == 2

nAb == <<"A", "b">>
nab == <<"a", "b">>
nBang == <<"!">>
nDotSlashDot == <<".", "/", ".">>
nDotSlashA == <<".", "/", "a">>
nUpA == <<".", ".", "/", "a">>

v1 == <<"1">>

\* The products a configuration is made of: each name as an s3 product, two names for
\* each other source type, and one product of an unknown source type.
Products ==
    {Product(n, "s3") : n \in {nAb, nab, nBang, nDotSlashDot, nDotSlashA, nUpA}}
    \cup {Product(n, s) : n \in {nAb, nab}, s \in {"maven", "artifactory"}}
    \cup {Product(nAb, "ftp")}

Configs(maxProducts) == UNION {[1..k -> Products] : k \in 0..maxProducts}

\* The SBOM files committed by hand before the run: none, or one for version 1 of the
\* product with the slug ab.
ManualSets == {{}, {SbomPath(nab, v1, SpdxFile)}}

\* The state of a run of the script at the call of main.
ShStart(config, manual) ==
    [pc |-> "validate", code |-> 0, config |-> config, manual |-> manual, i |-> 1,
     seen |-> << >>, written |-> {}, artifacts |-> << >>, stdout |-> {},
     downloaded |-> {}, calls |-> {}]

\* No run of the script.
ShOff == [ShStart(<< >>, {}) EXCEPT !.pc = "off"]

Exit(s, code) == [s EXCEPT !.pc = "exit", !.code = code]

\* validate_config, one product at a time: lines 33-47 and validate_product.
StepValidate(s) ==
    IF Len(s.config) = 0 THEN Exit(s, 1)
    ELSE IF s.i > Len(s.config) THEN [s EXCEPT !.pc = "product", !.i = 1]
    ELSE LET code == validate_product(s.config[s.i], s.seen)
         IN IF code # 0 THEN Exit(s, code)
            ELSE [s EXCEPT !.i = s.i + 1, !.seen = Append(s.seen, s.config[s.i].name)]

\* The slug main computes for product k of the configuration: line 529.
SlugOf(s, k) == sanitize_slug(s.config[k].name)

\* main, lines 518-536: the next product's directory and metadata.json; lines 568-573
\* after the last product.
StepProduct(s) ==
    IF s.i > Len(s.config) THEN [s EXCEPT !.pc = "done"]
    ELSE [s EXCEPT !.pc = "fetch",
                   !.written = s.written \cup {MetadataPath(SlugOf(s, s.i))}]

\* The files below docs/ when the fetch function looks for them.
FilesOf(s) == s.manual \cup s.written

\* What a fetch function has done when it returns: the lines it wrote to stdout, the
\* file it downloaded if any, and the code it left the script with (0: it returned).
Fetched(lines, paths, code) == [lines |-> lines, paths |-> paths, code |-> code]

S3Outcomes == {"unset", "listed", "nothing", "version_list", "no_match", "no_version_list"}

\* fetch_s3 "$product_json" "$slug": lines 142-251.
fetch_s3(files, slug, outcome) ==
    IF HasExistingSboms(files, slug) THEN Fetched(<< >>, {}, 0)
    ELSE CASE outcome = "unset" -> Fetched(<<MsgUrlUnset>>, {}, 2)
           [] outcome = "listed" ->
                Fetched(<<ArtifactLine(slug, v1)>>, {DownloadPath(slug, v1)}, 0)
           [] outcome = "nothing" -> Fetched(<< >>, {}, 0)
           [] outcome = "version_list" ->
                Fetched(<<MsgCannotList, ArtifactLine(slug, v1)>>,
                        {DownloadPath(slug, v1)}, 0)
           [] outcome = "no_match" -> Fetched(<<MsgCannotList>>, {}, 0)
           [] outcome = "no_version_list" ->
                Fetched(<<MsgCannotList, MsgNoVersionList, MsgAddVersionList>>, {}, 0)

MavenOutcomes == {"downloaded", "nothing"}

\* fetch_maven "$product_json" "$slug": lines 253-303.
fetch_maven(files, slug, outcome) ==
    IF outcome = "downloaded"
    THEN Fetched(<<ArtifactLine(slug, v1)>>, {DownloadPath(slug, v1)}, 0)
    ELSE Fetched(<< >>, {}, 0)

ArtifactoryOutcomes == {"unset", "downloaded", "nothing"}

\* fetch_artifactory "$product_json" "$slug": lines 305-425.
fetch_artifactory(files, slug, outcome) ==
    CASE outcome = "unset" -> Fetched(<< >>, {}, 2)
      [] outcome = "downloaded" ->
           Fetched(<<ArtifactLine(slug, v1)>>, {DownloadPath(slug, v1)}, 0)
      [] outcome = "nothing" -> Fetched(<< >>, {}, 0)

\* artifacts=$(fetch_... "$product_json" "$slug"): lines 539-550.  A fetch function that
\* exits ends the script with its code (set -e).
StepFetch(s, f) ==
    LET t == [s EXCEPT !.stdout = s.stdout \cup {f.lines[k] : k \in 1..Len(f.lines)},
                       !.downloaded = s.downloaded \cup f.paths]
    IN IF f.code # 0 THEN Exit(t, f.code)
       ELSE [t EXCEPT !.pc = "generate", !.artifacts = f.lines]

\* generate_sboms_for_artifact "$artifact_path" "$version" "$product_slug": both outputs
\* are written, by syft or by the echo of lines 447 and 455.
GeneratedFiles(slug, version) ==
    {SbomPath(slug, version, SpdxFile), SbomPath(slug, version, CycloneDxFile)}

\* main, lines 553-565: one line of $artifacts, or the next product after the last line.
StepGenerate(s) ==
    IF s.artifacts = << >> THEN [s EXCEPT !.pc = "product", !.i = s.i + 1]
    ELSE LET r == ReadLine(Head(s.artifacts))
             slug == SlugOf(s, s.i)
         IN IF r.artifact_path = << >> THEN [s EXCEPT !.artifacts = Tail(s.artifacts)]
            ELSE [s EXCEPT !.artifacts = Tail(s.artifacts),
                           !.written = s.written \cup GeneratedFiles(slug, r.version),
                           !.calls = s.calls \cup {[artifact_path |-> r.artifact_path,
                                                    version |-> r.version,
                                                    product_slug |-> slug]}]

\* ---------------------------------------------------- input documents

\* Bounds of the document universe.
MaxEdges == 3

MaxChain == 11

MaxFlat == 101

kr == <<"p", "r">>
ka == <<"p", "a">>
kb == <<"p", "b">>
km == <<"p", "m">>

va == <<"1", ".", "0">>

compA == Comp(ka, Undefined, <<"a">>, va, Undefined)
compB == Comp(kb, Undefined, <<"X", "m", "l">>, Undefined, <<"a", "b">>)
compR == Comp(kr, Undefined, <<"r">>, va, Undefined)

ProductP == <<"P">>

Input(sbom, productName, version) ==
    [sbom |-> sbom, productName |-> productName, version |-> version]

SeqsUpTo(T, n) == UNION {[1..k -> T] : k \in 0..n}

\* dependencies[] with one entry per source that has targets, in the order kr, ka, kb.
DepEntries(lr, la, lb) ==
    (IF lr = << >> THEN << >> ELSE <<Dep(kr, lr)>>)
    \o (IF la = << >> THEN << >> ELSE <<Dep(ka, la)>>)
    \o (IF lb = << >> THEN << >> ELSE <<Dep(kb, lb)>>)

\* Every dependency graph of at most maxEdges edges from the root reference and two
\* components to the root reference, the two components and one missing reference;
\* the root reference is itself a component or not.
GraphInputs(maxEdges) ==
    LET T == {kr, ka, kb, km}
    IN UNION {UNION {UNION {
         {Input(Sbom(Arr(comps), Arr(DepEntries(lr, la, lb)),
                     Metadata(Comp(kr, Undefined, Undefined, Undefined, Undefined))),
                ProductP, va)
            : comps \in {<<compA, compB>>, <<compA, compB, compR>>}}
         : lb \in SeqsUpTo(T, maxEdges - Len(lr) - Len(la))}
         : la \in SeqsUpTo(T, maxEdges - Len(lr))}
         : lr \in SeqsUpTo(T, maxEdges)}

kc(i) == <<"c">> \o NumToStr(i)

\* A chain root -> c1 -> ... -> cn; the last component depends on nothing, on c1 or
\* on the root reference.
ChainInput(n, back) ==
    LET comps == [i \in 1..n |-> Comp(kc(i), Undefined, kc(i), va, Undefined)]
        last(i) == IF i < n THEN <<kc(i + 1)>>
                   ELSE IF back = "first" THEN <<kc(1)>>
                   ELSE IF back = "root" THEN <<kr>>
                   ELSE << >>
        deps == <<Dep(kr, IF n > 0 THEN <<kc(1)>> ELSE << >>)>>
                \o [i \in 1..n |-> Dep(kc(i), last(i))]
    IN Input(Sbom(Arr(comps), Arr(deps),
                  Metadata(Comp(kr, Undefined, <<"r">>, va, Undefined))), ProductP, va)

ChainInputs == {ChainInput(n, back) : n \in 0..MaxChain, back \in {"none", "first", "root"}}

\* Components without a dependency graph; every second one has no version.
FlatInput(n, deps) ==
    LET comps == [i \in 1..n |->
                    Comp(Undefined, Undefined, <<"f">> \o NumToStr(i),
                         IF i % 2 = 0 THEN Undefined ELSE va, Undefined)]
    IN Input(Sbom(Arr(comps), deps, NoMetadata), ProductP, va)

FlatInputs ==
    {FlatInput(n, deps) : n \in (MaxFlat - 3)..MaxFlat,
                          deps \in {NoArr, Arr(<<Dep(km, <<km>>)>>)}}

\* Partial documents: missing arrays, missing metadata, missing fields.
PartialInputs ==
    {Input(Sbom(comps, deps, meta), product, version) :
        comps \in {NoArr, Arr(<< >>),
                   Arr(<<Comp(Undefined, ka, <<"a">>, Undefined, Undefined)>>),
                   Arr(<<compA, compB>>)},
        deps \in {NoArr, Arr(<< >>), Arr(<<DepNoList(kr)>>), Arr(<<Dep(kr, <<ka>>)>>),
                  Arr(<<Dep(Undefined, <<ka>>)>>), Arr(<<Dep(ka, <<kb>>), DepNoList(kb)>>)},
        meta \in {NoMetadata, MetadataOnly, Metadata(NoComp),
                  Metadata(Comp(kr, Undefined, <<"r">>, va, Undefined)),
                  Metadata(Comp(Undefined, kr, Undefined, Undefined, Undefined)),
                  Metadata(Comp(Undefined, Undefined, kr, Undefined, Undefined))},
        product \in {Undefined, ProductP},
        version \in {Undefined, va}}

ba == <<"b", "a">>
bb == <<"b", "b">>
br == <<"b", "r">>

\* Documents with bom-refs: the component a has a purl and a bom-ref, the component Xml
\* a bom-ref alone; the root's dependsOn lists purls and bom-refs; the root component
\* has a bom-ref, with or without a purl, and its dependencies[] entry is filed under
\* the purl or under the bom-ref.
BomRefInputs ==
    {Input(Sbom(Arr(<<Comp(ka, ba, <<"a">>, va, Undefined),
                      Comp(Undefined, bb, <<"X", "m", "l">>, Undefined, Undefined)>>),
                Arr(<<Dep(rref, lr)>>),
                Metadata(Comp(rpurl, br, <<"r">>, va, Undefined))),
           ProductP, va) :
        lr \in SeqsUpTo({ka, ba, bb}, 2) \ {<< >>},
        rref \in {kr, br},
        rpurl \in {kr, Undefined}}

OtherInputs == ChainInputs \cup FlatInputs \cup PartialInputs \cup BomRefInputs

\* Documents opened in the dependency-tree modal.
MaxPending == 1

kd(i) == <<"p", "d">> \o NumToStr(i)
kn == <<"p", "n">>

compC == Comp(<<"p", "c">>, Undefined, <<"c">>, va, Undefined)
compD(i) == Comp(kd(i), Undefined, <<"d">>, va, Undefined)
compN == Comp(kn, Undefined, Undefined, va, Undefined)

RootOnly == Metadata(Comp(kr, Undefined, Undefined, Undefined, Undefined))

\* root -> a -> Xml, root -> c
SearchDoc ==
    Sbom(Arr(<<compA, compB, compC>>),
         Arr(<<Dep(kr, <<ka, compC.purl>>), Dep(ka, <<kb>>)>>), RootOnly)

\* root -> d -> c, root -> d -> Xml: two components named d@1.0 at depth 1
TwinDoc ==
    Sbom(Arr(<<compD(1), compD(2), compB, compC>>),
         Arr(<<Dep(kr, <<kd(1), kd(2)>>), Dep(kd(1), <<compC.purl>>), Dep(kd(2), <<kb>>)>>),
         RootOnly)

\* root -> (a component without a name), root -> Xml
NamelessDoc ==
    Sbom(Arr(<<compN, compB>>), Arr(<<Dep(kr, <<kn, kb>>)>>), RootOnly)

\* two components and no dependency graph: the flat fallback
FlatDoc == Sbom(Arr(<<compA, compB>>), Arr(<< >>), NoMetadata)

\* no components at all: a root without children
EmptyDoc == Sbom(Arr(<< >>), Arr(<< >>), NoMetadata)

ProductQ == <<"Q">>

vb == <<"2">>

\* Three documents of product P 1.0 and one of product Q 2.
UiInputs == {Input(d, ProductP, va) : d \in {SearchDoc, NamelessDoc, EmptyDoc}}
            \cup {Input(FlatDoc, ProductQ, vb)}

TwinInput == Input(TwinDoc, ProductP, va)

\* Two documents of different products, for loads that overlap.
RaceInputs == {Input(SearchDoc, ProductP, va), Input(FlatDoc, ProductQ, vb)}

\* two components named d@1.0 and no dependency graph: the flat fallback
TwinFlatDoc == Sbom(Arr(<<compD(1), compD(2)>>), Arr(<< >>), NoMetadata)

\* Documents in which two components have the same name and version.
TwinInputs == {TwinInput, Input(TwinFlatDoc, ProductP, va)}

AllInputs == UiInputs \cup TwinInputs

\* parseCycloneDX(sbom, productName, version) for each of these documents.
Parsed == [inp \in AllInputs |-> parseCycloneDX(inp.sbom, inp.productName, inp.version)]

\* What the user types into the search box.
TypedValues == {<< >>, <<"X", "M", " ">>, <<"a">>}

\* ------------------------------------------------------------ state

VARIABLES
    in,     \* the arguments of the parseCycloneDX call being stepped
    b,      \* the state of that call
    treeData,               \* the nodes of the tree, << >> for null
    expandedNodes,          \* the set of expanded ids
    treeSearchQuery,
    userExpandedAll,        \* the pinned flag
    treeSearchSuggestions,  \* the texts of the suggestions
    modalOpen,              \* #tree-modal is displayed
    contentShown,           \* #tree-content is displayed
    rendered,               \* the rows in #tree-content
    shown,                  \* the texts in the suggestions box, {} when hidden
    page,                   \* the documents the page links to, and how many fetches
                            \* may be in flight at once
    pending,                \* the fetches in flight
    requested,              \* the arguments of the latest viewDependencyTree call, if any
    listenerArgs,           \* the arguments in the closure of the export listener, if set
    stats,                  \* the three counters of the stats bar, once written
    last,                   \* the handler that ran last, its argument, whether it raised
    sh                      \* the run of the fetch-and-generate script

buildVars == <<in, b>>

uiVars == <<treeData, expandedNodes, treeSearchQuery, userExpandedAll, treeSearchSuggestions,
            modalOpen, contentShown, rendered, shown, page, pending, requested,
            listenerArgs, stats, last>>

vars == <<in, b, treeData, expandedNodes, treeSearchQuery, userExpandedAll,
          treeSearchSuggestions, modalOpen, contentShown, rendered, shown, page, pending,
          requested, listenerArgs, stats, last, sh>>

Page(inputs, fetches) == [inputs |-> inputs, fetches |-> fetches]

\* render is "no" when the handler did not reach renderTree(), "yes" when renderTree()
\* returned and "raised" when it raised; file holds the download of an export.
Ran(op, id, raised, render) ==
    [op |-> op, id |-> id, raised |-> raised, render |-> render, file |-> {}]

\* The page as loaded: lines 984-989, the modal closed, nothing fetched.
InitUi == /\ treeData = << >>
          /\ expandedNodes = {}
          /\ treeSearchQuery = << >>
          /\ userExpandedAll = FALSE
          /\ treeSearchSuggestions = {}
          /\ modalOpen = FALSE
          /\ contentShown = FALSE
          /\ rendered = NoRows
          /\ shown = {}
          /\ pending = {}
          /\ requested = {}
          /\ listenerArgs = {}
          /\ stats = {}
          /\ last = Ran("load", << >>, FALSE, "no")

\* ------------------------------------- parseCycloneDX, one step at a time

InitBuild == /\ in \in GraphInputs(MaxEdges) \cup OtherInputs
             /\ b = BuildStart
             /\ sh = ShOff
             /\ page = Page(UiInputs, MaxPending)
             /\ InitUi

Start == b.pc = "start" /\ b' = StepStart(in, b) /\ UNCHANGED <<in, sh, uiVars>>

ExpandRoot == b.pc = "expand" /\ b' = StepExpand(in, b) /\ UNCHANGED <<in, sh, uiVars>>

buildTree ==
    b.pc = "walk" /\ CallPending(b) /\ b' = StepCall(in, b) /\ UNCHANGED <<in, sh, uiVars>>

ReturnNode ==
    b.pc = "walk" /\ ~CallPending(b) /\ b' = StepReturn(in, b) /\ UNCHANGED <<in, sh, uiVars>>

Fallback == b.pc = "fallback" /\ b' = StepFallback(in, b) /\ UNCHANGED <<in, sh, uiVars>>

NextBuild == Start \/ ExpandRoot \/ buildTree \/ ReturnNode \/ Fallback

SpecBuild == InitBuild /\ [][NextBuild]_vars

\* ------------------------------------------------ claims about the build

Done == b.pc = "done"

comps == Components(in.sbom).items

deps == Dependencies(in.sbom).items

\* The dependsOn list the walk iterates for the node with index p: the list of the
\* first dependencies[] entry whose ref is the node's reference (the root reference
\* for the root); empty when there is no such entry or it has no dependsOn.
ListOf(p) ==
    LET k == FindDep(deps, b.nodes[p].ref)
    IN IF k # 0 /\ deps[k].has_dependsOn THEN deps[k].dependsOn ELSE << >>

Range(seq) == {seq[i] : i \in 1..Len(seq)}

Resolvable(t) == t \in {ComponentKey(comps[i]) : i \in 1..Len(comps)}

NodesWithRef(t) == {i \in 2..Len(b.nodes) : b.nodes[i].ref = t}

RECURSIVE SumLens(_)
SumLens(ds) == IF ds = << >> THEN 0 ELSE Len(Head(ds).dependsOn) + SumLens(Tail(ds))

\* The number of parent links between node i and the root.
RECURSIVE Level(_, _)
Level(nodes, i) == IF nodes[i].parent = 0 THEN 0 ELSE 1 + Level(nodes, nodes[i].parent)

\* The proper ancestors of node i, the root included.
RECURSIVE AncestorsOf(_, _)
AncestorsOf(nodes, i) ==
    IF nodes[i].parent = 0 THEN {}
    ELSE {nodes[i].parent} \cup AncestorsOf(nodes, nodes[i].parent)

\* C1: parseCycloneDX terminates on every document, cyclic or not: the number of
\* buildTree calls never exceeds twice the number of dependsOn entries of the document
\* (each list is iterated at most once for the root and once for a node), and the call
\* can take a step until it has ended.
C1_BuildTerminates ==
    /\ b.calls <= 2 * SumLens(deps)
    /\ BuildEnded(b) \/ ENABLED NextBuild

\* A build has ended on a document with a cycle of three or more references: a node
\* lists the reference of an ancestor two or more levels above it.
C1_Witness ==
    /\ Done
    /\ \E i \in 2..Len(b.nodes) : \E a \in AncestorsOf(b.nodes, i) \ {1, b.nodes[i].parent} :
          b.nodes[a].ref \in Range(ListOf(i))

\* The parents of the tree that list t and could hold it as a child: nodes above the
\* depth cap whose dependsOn list contains t, and that are neither a node of t nor
\* below one (so that t reaches them through no cycle).
ParentsListing(t) ==
    {q \in 1..Len(b.nodes) :
        /\ b.nodes[q].depth < maxDepth
        /\ t \in Range(ListOf(q))
        /\ ({q} \cup AncestorsOf(b.nodes, q)) \cap NodesWithRef(t) = {}}

HasChildFor(q, t) == \E c \in ChildrenOf(b.nodes, q) : b.nodes[c].ref = t

\* The buildTree call that is about to be made, when one is pending.
NextCall ==
    LET top == b.stack[Len(b.stack)]
    IN [ref |-> top.list[top.i], depth |-> top.depth, parent |-> top.node]

\* C2 (as stated): when a resolvable reference is listed by two different parents of
\* the built tree, each of the two parents has a child node for it.
C2_SecondOccurrenceIsLeaf ==
    (Done /\ ~b.usedFallback) =>
        \A t \in DOMAIN componentMap(in.sbom) :
            \A q \in ParentsListing(t) :
                Cardinality(ParentsListing(t)) >= 2 => HasChildFor(q, t)

\* C2 (amended): a buildTree call for a reference that is already in processedRefs adds
\* no node; a call for a resolvable reference that is not, within the depth cap, adds
\* one node under the calling parent; and no two nodes of a graph-built tree come from
\* the same reference.
C2_FirstOccurrenceOnly ==
    [][buildTree =>
        /\ NextCall.ref \in b.processedRefs => b'.nodes = b.nodes
        /\ (NextCall.ref \notin b.processedRefs /\ NextCall.depth <= maxDepth
              /\ Resolvable(NextCall.ref)) =>
             /\ Len(b'.nodes) = Len(b.nodes) + 1
             /\ SubSeq(b'.nodes, 1, Len(b.nodes)) = b.nodes
             /\ b'.nodes[Len(b'.nodes)].ref = NextCall.ref
             /\ b'.nodes[Len(b'.nodes)].parent = NextCall.parent
        /\ \A i, j \in 2..Len(b'.nodes) : b'.nodes[i].ref = b'.nodes[j].ref => i = j]_vars

\* A build has ended in which a resolvable reference is listed by two different parents
\* of the tree and exactly one node exists for it.
C2_Witness ==
    /\ Done /\ ~b.usedFallback
    /\ \E t \in DOMAIN componentMap(in.sbom) :
          /\ Cardinality(ParentsListing(t)) >= 2
          /\ Cardinality(NodesWithRef(t)) = 1
          /\ \E q \in ParentsListing(t) : ~HasChildFor(q, t)

\* C3: every node below the root comes from a reference that is a key of the component
\* index, and no error is raised.
C3_NoNodeForMissingRef ==
    /\ ~b.error
    /\ \A i \in 2..Len(b.nodes) : Resolvable(b.nodes[i].ref)

\* A build has ended after visiting a dependsOn target that is absent from components[].
C3_Witness ==
    /\ Done
    /\ \E t \in b.processedRefs : ~Resolvable(t)

\* C4: the depth field of every node is its number of edges to the root, no depth
\* exceeds maxDepth, and a node at depth maxDepth has no child.
C4_DepthIsLevelAndCapped ==
    \A i \in 1..Len(b.nodes) :
        /\ b.nodes[i].depth = Level(b.nodes, i)
        /\ b.nodes[i].depth <= maxDepth
        /\ b.nodes[i].depth = maxDepth => ChildrenOf(b.nodes, i) = {}

\* A build has ended with a node at depth maxDepth that lists a resolvable reference
\* that was never processed: only the cap kept it out of the tree.
C4_Witness ==
    /\ Done
    /\ \E i \in 2..Len(b.nodes) :
          /\ b.nodes[i].depth = maxDepth
          /\ \E t \in Range(ListOf(i)) : Resolvable(t) /\ t \notin b.processedRefs

\* purl, else bom-ref, else name, read off the fields.
IdentityKey(c) ==
    IF Truthy(c.purl) THEN c.purl ELSE IF Truthy(c.bomref) THEN c.bomref ELSE c.name

\* The candidates for the root reference, in the order of preference.
RootRefCandidates ==
    <<IF in.sbom.metadata.has /\ in.sbom.metadata.has_component
        THEN IdentityKey(in.sbom.metadata.component) ELSE Undefined,
      IF Len(deps) > 0 THEN deps[1].ref ELSE Undefined,
      IF Len(comps) > 0 THEN IdentityKey(comps[1]) ELSE Undefined>>

\* The root reference is the first candidate that exists, and none (a falsy value)
\* when no candidate exists.
RootRefIsFirstCandidate ==
    LET c == RootRefCandidates
        r == b.nodes[1].ref
    IN b.pc \notin {"start", "raised"} =>
         IF Truthy(c[1]) THEN r = c[1]
         ELSE IF Truthy(c[2]) THEN r = c[2]
         ELSE IF Truthy(c[3]) THEN r = c[3]
         ELSE Falsy(r)

FirstPos(list, t) == CHOOSE i \in 1..Len(list) : list[i] = t /\ \A j \in 1..(i - 1) : list[j] # t

\* The ancestor of node i that is a child of the root (i itself at depth 1).
RECURSIVE TopOf(_, _)
TopOf(nodes, i) == IF nodes[i].parent = 1 THEN i ELSE TopOf(nodes, nodes[i].parent)

RootChildRefs == {b.nodes[c].ref : c \in ChildrenOf(b.nodes, 1)}

\* C5 (as stated): the root reference is the first existing candidate, and the root's
\* graph children are exactly the resolvable dependsOn targets of the root's entry.
C5_RootChildrenAreAllTargets ==
    /\ RootRefIsFirstCandidate
    /\ (Done /\ ~b.usedFallback) =>
          RootChildRefs = {t \in Range(ListOf(1)) : Resolvable(t)}

\* C5 (amended): the root reference is the first existing candidate; the root's graph
\* children are resolvable targets of the root's entry, in list order; every resolvable
\* target of that entry has exactly one node, which is a child of the root unless it
\* was first reached below a target listed earlier; the fallback runs only when the
\* entry has no resolvable target.
C5_RootRefAndChildren ==
    /\ RootRefIsFirstCandidate
    /\ (Done /\ ~b.usedFallback) =>
          LET list == ListOf(1)
          IN /\ RootChildRefs \subseteq {t \in Range(list) : Resolvable(t)}
             /\ \A c1, c2 \in ChildrenOf(b.nodes, 1) :
                   c1 < c2 => FirstPos(list, b.nodes[c1].ref) < FirstPos(list, b.nodes[c2].ref)
             /\ \A t \in Range(list) : Resolvable(t) =>
                   /\ Cardinality(NodesWithRef(t)) = 1
                   /\ \A n \in NodesWithRef(t) :
                         \/ b.nodes[n].parent = 1
                         \/ FirstPos(list, b.nodes[TopOf(b.nodes, n)].ref) < FirstPos(list, t)
    /\ (Done /\ b.usedFallback) => \A t \in Range(ListOf(1)) : ~Resolvable(t)

\* A build has ended, without the fallback, in which a resolvable target of the root's
\* entry is not a child of the root.
C5_Witness ==
    /\ Done /\ ~b.usedFallback
    /\ \E t \in Range(ListOf(1)) : Resolvable(t) /\ t \notin RootChildRefs

\* The node the claim expects for a component of a flat document.
IsFlatChild(node, c) ==
    /\ node.name = c.name
    /\ node.version = (IF Truthy(c.version) THEN c.version ELSE Unknown)
    /\ node.depth = 1 /\ node.type = "direct" /\ node.parent = 1

Min(x, y) == IF x < y THEN x ELSE y

SourceOf(i) ==
    IF b.usedFallback THEN comps[i - 1]
    ELSE comps[CHOOSE k \in 1..Len(comps) :
                  /\ IdentityKey(comps[k]) = b.nodes[i].ref
                  /\ \A j \in (k + 1)..Len(comps) : IdentityKey(comps[j]) # b.nodes[i].ref]

\* The node with index p has a dependencies[] entry and that entry has no dependsOn.
EntryWithoutDependsOn(p) ==
    LET k == FindDep(deps, b.nodes[p].ref) IN k # 0 /\ ~deps[k].has_dependsOn

\* C7: no call raises; a node whose component has no version has version "unknown";
\* a node whose dependencies[] entry has no dependsOn gets no child from the graph;
\* and a document without components gives a root without children.
C7_PartialDocumentNeverRaises ==
    /\ ~b.error /\ b.pc # "raised"
    /\ \A i \in 2..Len(b.nodes) :
          b.nodes[i].version =
             (IF Truthy(SourceOf(i).version) THEN SourceOf(i).version ELSE Unknown)
    /\ ~b.usedFallback =>
          \A p \in 1..Len(b.nodes) : EntryWithoutDependsOn(p) => ChildrenOf(b.nodes, p) = {}
    /\ Done => /\ Len(b.nodes) >= 1 /\ b.nodes[1].type = "root"
               /\ Len(comps) = 0 => Len(b.nodes) = 1

\* A build has ended on a document that has no components, no dependencies and no
\* metadata field.
C7_Witness ==
    /\ Done
    /\ ~in.sbom.components.has /\ ~in.sbom.dependencies.has /\ ~in.sbom.metadata.has
    /\ Len(b.nodes) = 1

\* ------------------------------------------------ the dependency-tree modal

\* The trailing renderTree() of a handler that has set the tree, the expanded set, the
\* query and the flag to the given values.
RenderAfter(tree, expanded, q, pinned, op, id) ==
    LET r == renderTree(tree, expanded, q, pinned, rendered)
    IN /\ treeData' = TreeAfterRender(tree)
       /\ expandedNodes' = r.expanded
       /\ rendered' = r.rendered
       /\ last' = Ran(op, id, r.raised, IF r.raised THEN "raised" ELSE "yes")

\* viewDependencyTree(sbomUrl, productName, version) up to its await fetch(sbomUrl):
\* lines 992-1049.  The button is on the page behind the modal.  The listeners are
\* added by the first call only, with that call's arguments in the export closure.
viewDependencyTree(inp) ==
    /\ Cardinality(pending \cup {inp}) <= page.fetches
    /\ treeData' = << >>
    /\ expandedNodes' = {}
    /\ treeSearchQuery' = << >>
    /\ userExpandedAll' = FALSE
    /\ modalOpen' = TRUE
    /\ contentShown' = FALSE
    /\ rendered' = NoRows
    /\ shown' = {}
    /\ pending' = pending \cup {inp}
    /\ requested' = {inp}
    /\ listenerArgs' = IF listenerArgs = {}
                       THEN {[productName |-> inp.productName, version |-> inp.version]}
                       ELSE listenerArgs
    /\ last' = Ran("view", << >>, FALSE, "no")
    /\ UNCHANGED <<buildVars, sh, page, stats, treeSearchSuggestions>>

\* The fetch of inp resolves with the document: lines 1052-1068, and the catch of
\* line 1069 for whatever parseCycloneDX or renderTree raises.
FetchResolve(inp) ==
    /\ inp \in pending
    /\ pending' = pending \ {inp}
    /\ LET built == Parsed[inp]
           tree == built.nodes
       IN IF built.error
          THEN /\ last' = Ran("resolve", << >>, TRUE, "no")
               /\ UNCHANGED <<treeData, expandedNodes, treeSearchSuggestions,
                              contentShown, rendered, stats>>
          ELSE IF ChildrenOf(tree, 1) = {}
                  THEN /\ treeData' = tree
                       /\ last' = Ran("resolve", << >>, FALSE, "no")
                       /\ UNCHANGED <<expandedNodes, treeSearchSuggestions,
                                      contentShown, rendered, stats>>
                  ELSE /\ stats' = {updateTreeStats(tree)}
                       /\ treeSearchSuggestions' = SuggestionsOf(tree)
                       /\ RenderAfter(tree, expandedNodes \cup {getNodeId(tree[1])},
                                      treeSearchQuery, userExpandedAll, "resolve", << >>)
                       /\ contentShown' = (contentShown \/ ~last'.raised)
    /\ UNCHANGED <<buildVars, sh, page, requested, listenerArgs, treeSearchQuery, userExpandedAll,
                   modalOpen, shown>>

\* The fetch of inp fails or answers with a status that is not ok: lines 1050, 1069.
FetchFail(inp) ==
    /\ inp \in pending
    /\ pending' = pending \ {inp}
    /\ last' = Ran("fail", << >>, TRUE, "no")
    /\ UNCHANGED <<buildVars, sh, page, requested, listenerArgs, stats, treeData, expandedNodes, treeSearchQuery, userExpandedAll,
                   treeSearchSuggestions, modalOpen, contentShown, rendered, shown>>

\* closeTreeModal(): the close button of the modal, or Escape while it is displayed.
closeTreeModal ==
    /\ modalOpen
    /\ modalOpen' = FALSE
    /\ treeData' = << >>
    /\ expandedNodes' = {}
    /\ treeSearchQuery' = << >>
    /\ userExpandedAll' = FALSE
    /\ treeSearchSuggestions' = {}
    /\ shown' = {}
    /\ last' = Ran("close", << >>, FALSE, "no")
    /\ UNCHANGED <<buildVars, sh, page, requested, listenerArgs, stats, contentShown, rendered, pending>>

\* handleTreeSearch(e) with e.target.value = value.  showTreeSuggestions builds the
\* suggestions when there are none, and raises before the query is stored when a
\* suggestion has no text.
handleTreeSearch(value) ==
    /\ modalOpen
    /\ LET query == trim(value)
           sugg == IF Truthy(query) /\ treeSearchSuggestions = {} /\ treeData # << >>
                   THEN SuggestionsOf(treeData) ELSE treeSearchSuggestions
           box == IF Truthy(query) THEN showTreeSuggestions(sugg, query)
                  ELSE [raised |-> FALSE, shown |-> {}]
       IN /\ treeSearchSuggestions' = sugg
          /\ IF box.raised
             THEN /\ last' = Ran("search", value, TRUE, "no")
                  /\ UNCHANGED <<treeData, treeSearchQuery, userExpandedAll, expandedNodes,
                                 rendered, shown>>
             ELSE /\ shown' = box.shown
                  /\ treeSearchQuery' = toLowerCase(query)
                  /\ userExpandedAll' = FALSE
                  /\ RenderAfter(treeData, expandedNodes, toLowerCase(query), FALSE,
                                 "search", value)
    /\ UNCHANGED <<buildVars, sh, page, requested, listenerArgs, stats, modalOpen, contentShown, pending>>

\* clearTreeSearch()
clearTreeSearch ==
    /\ modalOpen
    /\ shown' = {}
    /\ treeSearchQuery' = << >>
    /\ userExpandedAll' = FALSE
    /\ RenderAfter(treeData, expandedNodes, << >>, FALSE, "clear", << >>)
    /\ UNCHANGED <<buildVars, sh, page, requested, listenerArgs, stats, treeSearchSuggestions, modalOpen, contentShown, pending>>

\* selectTreeSuggestion(text), text being one of the suggestions in the box
selectTreeSuggestion(text) ==
    /\ modalOpen
    /\ text \in shown
    /\ shown' = {}
    /\ treeSearchQuery' = toLowerCase(text)
    /\ userExpandedAll' = FALSE
    /\ RenderAfter(treeData, expandedNodes, toLowerCase(text), FALSE, "select", text)
    /\ UNCHANGED <<buildVars, sh, page, requested, listenerArgs, stats, treeSearchSuggestions, modalOpen, contentShown, pending>>

\* The ids of the rows that can be clicked.
RowIds == IF modalOpen /\ contentShown
          THEN {getNodeId(rendered.tree[i]) : i \in rendered.rows} ELSE {}

\* Mutant of Flipped: the id is added, never deleted.
FlippedAddsOnly(expanded, nodeId) == expanded \cup {nodeId}

\* if (expandedNodes.has(nodeId)) expandedNodes.delete(nodeId); else expandedNodes.add(nodeId);
Flipped(expanded, nodeId) ==
    IF nodeId \in expanded THEN expanded \ {nodeId} ELSE expanded \cup {nodeId}

\* toggleTreeNode(nodeId), the onclick of a row; recorded as "collapse" when the id was
\* in the expanded set and as "expand" when it was not.
toggleTreeNode(nodeId) ==
    /\ nodeId \in RowIds
    /\ userExpandedAll' = FALSE
    /\ shown' = {}
    /\ RenderAfter(treeData, Flipped(expandedNodes, nodeId), treeSearchQuery, FALSE,
                   IF nodeId \in expandedNodes THEN "collapse" ELSE "expand", nodeId)
    /\ UNCHANGED <<buildVars, sh, page, requested, listenerArgs, stats, treeSearchQuery, treeSearchSuggestions, modalOpen,
                   contentShown, pending>>

\* Mutant of AllIds: the root's id is left out.
AllIdsBelowRoot(tree) == {getNodeId(tree[i]) : i \in 2..Len(tree)}

\* addAllNodes(treeData)
AllIds(tree) == {getNodeId(tree[i]) : i \in 1..Len(tree)}

\* expandAllTree(); addAllNodes(null) raises at getNodeId(null), after the flag is set.
expandAllTree ==
    /\ modalOpen
    /\ userExpandedAll' = TRUE
    /\ shown' = {}
    /\ IF treeData = << >>
       THEN /\ last' = Ran("expandAll", << >>, TRUE, "no")
            /\ UNCHANGED <<treeData, expandedNodes, rendered>>
       ELSE RenderAfter(treeData, expandedNodes \cup AllIds(treeData), treeSearchQuery, TRUE,
                        "expandAll", << >>)
    /\ UNCHANGED <<buildVars, sh, page, requested, listenerArgs, stats, treeSearchQuery, treeSearchSuggestions, modalOpen,
                   contentShown, pending>>

\* Mutant of CollapsedSet: the set is not cleared first.
CollapsedSetKeepsAll(expanded, tree) == expanded \cup {getNodeId(tree[1])}

\* expandedNodes.clear(); expandedNodes.add(getNodeId(treeData));
CollapsedSet(expanded, tree) == {getNodeId(tree[1])}

\* collapseAllTree(); getNodeId(null) raises after the flag is set and the set cleared.
collapseAllTree ==
    /\ modalOpen
    /\ userExpandedAll' = TRUE
    /\ shown' = {}
    /\ IF treeData = << >>
       THEN /\ expandedNodes' = {}
            /\ last' = Ran("collapseAll", << >>, TRUE, "no")
            /\ UNCHANGED <<treeData, rendered>>
       ELSE RenderAfter(treeData, CollapsedSet(expandedNodes, treeData), treeSearchQuery, TRUE,
                        "collapseAll", << >>)
    /\ UNCHANGED <<buildVars, sh, page, requested, listenerArgs, stats, treeSearchQuery, treeSearchSuggestions, modalOpen,
                   contentShown, pending>>

\* Mutant of ExportArgs: the arguments of the latest viewDependencyTree call.
ExportArgsLatest(listener, latest) == latest

\* () => exportTree(productName, version): the arguments the listener passes are those
\* of the call that added it.
ExportArgs(listener, latest) == listener

\* exportTree(productName, version) from the click on the export button; exportNode(null)
\* raises when no tree is loaded.  The download is recorded in last.file.
exportTree ==
    /\ modalOpen
    /\ shown' = {}
    /\ IF treeData = << >>
       THEN last' = Ran("export", << >>, TRUE, "no")
       ELSE \E args \in ExportArgs(listenerArgs, requested) :
               last' = [Ran("export", << >>, FALSE, "no") EXCEPT
                          !.file = {[name |-> FileName(args.productName, args.version),
                                     lines |-> ExportLines(treeData, expandedNodes,
                                                          userExpandedAll,
                                                          treeSearchQuery)]}]
    /\ UNCHANGED <<buildVars, sh, page, requested, listenerArgs, stats, treeData, expandedNodes,
                   treeSearchQuery, userExpandedAll, treeSearchSuggestions, modalOpen,
                   contentShown, rendered, pending>>

View == \E inp \in page.inputs : viewDependencyTree(inp)

Resolve == \E inp \in pending : FetchResolve(inp)

Fail == \E inp \in pending : FetchFail(inp)

Search == \E value \in TypedValues : handleTreeSearch(value)

Select == \E text \in shown : selectTreeSuggestion(text)

Toggle == \E nodeId \in RowIds : toggleTreeNode(nodeId)

Next == \/ View \/ Resolve \/ Fail \/ closeTreeModal \/ Search \/ clearTreeSearch
        \/ Select \/ Toggle \/ expandAllTree \/ collapseAllTree \/ exportTree

InitPage(inputs, fetches) ==
    /\ in = Input(EmptyDoc, ProductP, va)
    /\ b = BuildStart
    /\ sh = ShOff
    /\ page = Page(inputs, fetches)
    /\ InitUi

Init == InitPage(UiInputs, MaxPending)

Spec == Init /\ [][Next]_vars

\* Two products, and one more fetch in flight than in Spec: loads that overlap.
InitRace == InitPage(RaceInputs, MaxPending + 1)

SpecRace == InitRace /\ [][Next]_vars

\* Documents with two components of the same name and version.
InitTwin == InitPage(TwinInputs, MaxPending)

SpecTwin == InitTwin /\ [][Next]_vars

\* ------------------------------------------- fetch-and-generate: actions

InitFetch ==
    /\ sh \in {ShStart(c, m) : c \in Configs(MaxProducts), m \in ManualSets}
    /\ in = Input(EmptyDoc, ProductP, va)
    /\ b = BuildStart
    /\ page = Page(UiInputs, MaxPending)
    /\ InitUi

validate_config ==
    sh.pc = "validate" /\ sh' = StepValidate(sh) /\ UNCHANGED <<in, b, uiVars>>

write_metadata ==
    sh.pc = "product" /\ sh' = StepProduct(sh) /\ UNCHANGED <<in, b, uiVars>>

FetchS3 ==
    /\ sh.pc = "fetch" /\ sh.config[sh.i].source = "s3"
    /\ \E o \in S3Outcomes : sh' = StepFetch(sh, fetch_s3(FilesOf(sh), SlugOf(sh, sh.i), o))
    /\ UNCHANGED <<in, b, uiVars>>

FetchMaven ==
    /\ sh.pc = "fetch" /\ sh.config[sh.i].source = "maven"
    /\ \E o \in MavenOutcomes :
          sh' = StepFetch(sh, fetch_maven(FilesOf(sh), SlugOf(sh, sh.i), o))
    /\ UNCHANGED <<in, b, uiVars>>

FetchArtifactory ==
    /\ sh.pc = "fetch" /\ sh.config[sh.i].source = "artifactory"
    /\ \E o \in ArtifactoryOutcomes :
          sh' = StepFetch(sh, fetch_artifactory(FilesOf(sh), SlugOf(sh, sh.i), o))
    /\ UNCHANGED <<in, b, uiVars>>

generate_sboms_for_artifact ==
    sh.pc = "generate" /\ sh' = StepGenerate(sh) /\ UNCHANGED <<in, b, uiVars>>

NextFetch ==
    \/ validate_config
    \/ write_metadata
    \/ FetchS3
    \/ FetchMaven
    \/ FetchArtifactory
    \/ generate_sboms_for_artifact

SpecFetch == InitFetch /\ [][NextFetch]_vars

\* ------------------------------------------------ claims about the modal

\* matches(node, query) as specified: the query is empty, or it is a substring of the
\* lower-cased name, version or description, an absent field matching nothing.
Matches(node, q) ==
    \/ ~Truthy(q)
    \/ \E f \in {"name", "version", "description"} :
          node[f] # Undefined /\ includes(toLowerCase(node[f]), q)

\* Node i or one of its descendants matches q.
SubtreeMatches(tree, i, q) ==
    \E k \in 1..Len(tree) : (k = i \/ i \in AncestorsOf(tree, k)) /\ Matches(tree[k], q)

\* The row of node i of the current tree is in #tree-content.
IsRendered(i) == rendered.tree = treeData /\ i \in rendered.rows

\* Some node with this id matches the query or has a matching descendant.
OnMatchPath(nodeId) ==
    \E i \in 1..Len(treeData) :
        getNodeId(treeData[i]) = nodeId /\ SubtreeMatches(treeData, i, treeSearchQuery)

\* C8: after a handler has called renderTree() on a loaded tree with a non-empty query
\* and the pinned flag unset, every ancestor of every matching node is in the expanded
\* set and rendered, and no node whose subtree holds no match is rendered.
C8_SearchShowsMatchPathsOnly ==
    (last.render # "no" /\ treeData # << >> /\ Truthy(treeSearchQuery) /\ ~userExpandedAll)
    => /\ \A i \in 1..Len(treeData) :
            Matches(treeData[i], treeSearchQuery)
            => \A j \in AncestorsOf(treeData, i) :
                  getNodeId(treeData[j]) \in expandedNodes /\ IsRendered(j)
       /\ \A i \in 1..Len(treeData) :
            ~SubtreeMatches(treeData, i, treeSearchQuery) => ~IsRendered(i)

\* C9 as stated: toggleTreeNode(id) clears the pinned flag and leaves id expanded iff it
\* was collapsed, in every state, a search query active or not.
C9_ToggleFlipsMembership ==
    [][\A nodeId \in RowIds :
          toggleTreeNode(nodeId)
          => /\ ~userExpandedAll'
             /\ (nodeId \in expandedNodes') <=> (nodeId \notin expandedNodes)]_vars

\* C9: toggleTreeNode(id) clears the pinned flag and removes no other id; a collapsed id
\* is expanded afterwards; an expanded id is collapsed afterwards unless a query is
\* active and a node with that id matches it or has a matching descendant, and in that
\* case the trailing renderTree(), when it returns, leaves the id expanded.
C9_ToggleFlipsOffMatchPaths ==
    [][\A nodeId \in RowIds :
          toggleTreeNode(nodeId)
          => /\ ~userExpandedAll'
             /\ expandedNodes \ {nodeId} \subseteq expandedNodes'
             /\ nodeId \notin expandedNodes => nodeId \in expandedNodes'
             /\ (nodeId \in expandedNodes /\ nodeId \in expandedNodes')
                => (Truthy(treeSearchQuery) /\ OnMatchPath(nodeId))
             /\ (nodeId \in expandedNodes /\ Truthy(treeSearchQuery) /\ OnMatchPath(nodeId)
                 /\ last'.render = "yes")
                => nodeId \in expandedNodes']_vars

\* An expanded row on a path to a match was clicked while a query was active, and the
\* render that followed expanded it again.
C9_Witness ==
    /\ last.op = "collapse" /\ last.render = "yes"
    /\ Truthy(treeSearchQuery)
    /\ last.id \in expandedNodes
    /\ OnMatchPath(last.id)

\* C10: on a loaded tree collapseAllTree() leaves exactly the root id in the expanded
\* set and the pinned flag set, whatever the set held and whatever the query is.
C10_CollapseAllLeavesRoot ==
    [][(collapseAllTree /\ treeData # << >>)
       => (expandedNodes' = {RootId} /\ userExpandedAll')]_vars

\* collapseAllTree() ran while a query with a match below the root was active, so the
\* render that followed had paths it would auto-expand without the flag.
C10_Witness ==
    /\ last.op = "collapseAll" /\ last.render = "yes"
    /\ Truthy(treeSearchQuery)
    /\ \E i \in 2..Len(treeData) :
          Matches(treeData[i], treeSearchQuery) /\ treeData[i].parent # 1
    /\ expandedNodes = {RootId}
    /\ userExpandedAll

\* C11: on a loaded tree expandAllTree() leaves the id of every node, the root
\* included, in the expanded set and the pinned flag set.
C11_ExpandAllAddsEveryId ==
    [][(expandAllTree /\ treeData # << >>)
       => /\ \A i \in 1..Len(treeData) : getNodeId(treeData[i]) \in expandedNodes'
          /\ userExpandedAll']_vars

\* expandAllTree() ran on a tree that has nodes at depth 2.
C11_Witness ==
    /\ last.op = "expandAll" /\ last.render = "yes"
    /\ \E i \in 2..Len(treeData) : treeData[i].parent # 1
    /\ \A i \in 1..Len(treeData) : getNodeId(treeData[i]) \in expandedNodes
    /\ userExpandedAll

\* After a handler has stored the query q with the flag unset and rendered: the flag is
\* unset, the query is q, and every node that matches q or has a matching descendant
\* has its id in the expanded set.
SearchResumed(q) ==
    /\ ~userExpandedAll'
    /\ treeSearchQuery' = q
    /\ \A i \in 1..Len(treeData) :
          SubtreeMatches(treeData, i, q) => getNodeId(treeData[i]) \in expandedNodes'

\* C12: entering a non-empty query, typed or selected from the suggestions, clears the
\* pinned flag and the render that follows auto-expands every path to a match, also
\* after expandAllTree() or collapseAllTree() has set the flag; clearTreeSearch() unsets
\* the flag too.
C12_NewQueryClearsPinned ==
    [][/\ \A value \in TypedValues :
            (handleTreeSearch(value) /\ Truthy(trim(value)))
            => SearchResumed(toLowerCase(trim(value)))
       /\ \A text \in shown :
            (selectTreeSuggestion(text) /\ Truthy(text)) => SearchResumed(toLowerCase(text))
       /\ clearTreeSearch => ~userExpandedAll']_vars

\* name, then @version when the node has a version: what an export line ends with
Label(node) ==
    ToStr(node.name) \o (IF Truthy(node.version) THEN <<"@">> \o node.version ELSE << >>)

\* A tree was exported by the handler that ran last.
Exported == last.op = "export" /\ ~last.raised

\* The file the export handed to the browser.
Download == CHOOSE f \in last.file : TRUE

\* C13 as stated: the export has one line per node below the root, as many lines as the
\* stats total, and no line for the root.
C13_ExportOmitsRoot ==
    Exported
    => /\ Len(Download.lines) = Len(treeData) - 1
       /\ Len(Download.lines) = updateTreeStats(treeData).total
       /\ \A k \in 1..Len(Download.lines) : Download.lines[k] # <<"L-- ">> \o Label(treeData[1])

\* C13: the export has one line per node of the tree, the root included, in depth-first
\* order: one line more than the stats total, the first line being the root's, and the
\* line of a node at depth d being d prefix cells, a connector and the node's label.
C13_ExportHasRootLine ==
    Exported
    => /\ Len(Download.lines) = Len(treeData)
       /\ Len(Download.lines) = updateTreeStats(treeData).total + 1
       /\ Download.lines[1] = <<"L-- ">> \o Label(treeData[1])
       /\ \A k \in 1..Len(treeData) :
             LET line == Download.lines[k]
                 d == Level(treeData, k)
             IN /\ Len(line) > d + 1
                /\ \A c \in 1..d : line[c] \in {"    ", "|   "}
                /\ line[d + 1] \in {"L-- ", "+-- "}
                /\ SubSeq(line, d + 2, Len(line)) = Label(treeData[k])

\* A tree with nodes at depth 2 and a root with two children was exported.
C13_Witness ==
    /\ Exported
    /\ \E i \in 2..Len(treeData) : treeData[i].parent # 1
    /\ Cardinality(ChildrenOf(treeData, 1)) > 1
    /\ Len(Download.lines) = Len(treeData)

\* The viewDependencyTree arguments whose document builds the current tree.
LoadedInputs == {inp \in AllInputs : Parsed[inp].nodes = treeData}

\* C14: whatever trees were opened and closed before, the exported file is named
\* {product}-{version}-dependency-tree.txt with the product and version of the tree
\* that is exported.
C14_FileNamedAfterExportedTree ==
    Exported
    => \E inp \in LoadedInputs : Download.name = FileName(inp.productName, inp.version)

\* C15: once every fetch has finished, the modal shows nothing of a load that was
\* requested before the latest one: the tree is the one built from the latest
\* requested document (or none, when that fetch failed), the stats are the stats
\* of that tree, the rows are rows of that tree, and the expanded set holds ids of that
\* tree only.
C15_LatestLoadWins ==
    (modalOpen /\ pending = {})
    => \A inp \in requested :
          /\ treeData \in {<< >>, Parsed[inp].nodes}
          /\ (treeData # << >> /\ ChildrenOf(treeData, 1) # {})
             => /\ stats = {updateTreeStats(Parsed[inp].nodes)}
                /\ rendered.tree \in {<< >>, treeData}
                /\ expandedNodes \subseteq AllIds(Parsed[inp].nodes)

NodesOfType(nodes, type) == {i \in 1..Len(nodes) : nodes[i].type = type}

\* C16: for every built tree the stats total is direct plus transitive: the total is
\* the number of nodes below the root, direct and transitive are the numbers of nodes
\* of these kinds, every node below the root is of one of the two kinds, the root is
\* of neither, and a document without components gives 0, 0, 0.
C16_StatsTotalIsDirectPlusTransitive ==
    Done
    => LET s == updateTreeStats(b.nodes)
       IN /\ s.total = s.direct + s.transitive
          /\ s.total = Len(b.nodes) - 1
          /\ s.direct = Cardinality(NodesOfType(b.nodes, "direct"))
          /\ s.transitive = Cardinality(NodesOfType(b.nodes, "transitive"))
          /\ NodesOfType(b.nodes, "direct") \cup NodesOfType(b.nodes, "transitive")
             = 2..Len(b.nodes)
          /\ b.nodes[1].type = "root"
          /\ comps = << >> => s = Counters(0, 0, 0)

\* A tree with two direct and at least one transitive node was built.
C16_Witness ==
    /\ Done
    /\ updateTreeStats(b.nodes).direct = 2
    /\ updateTreeStats(b.nodes).transitive >= 1

\* name@version-depth from the node's own fields
IdFromFields(node) ==
    ToStr(node.name) \o <<"@">> \o ToStr(node.version) \o <<"-">> \o NumToStr(node.depth)

\* C17 as stated: the root's id is "root" and the id of every other node, built from
\* the graph or by the fallback, is name@version-depth of its own fields.
C17_IdIsNameVersionDepth ==
    Done => /\ b.nodes[1].id = RootId
            /\ \A i \in 2..Len(b.nodes) : b.nodes[i].id = IdFromFields(b.nodes[i])

\* C17: the root's id is "root"; a node built from the dependency graph has the id
\* name@version-depth of its own fields; the node the fallback builds for components[i]
\* (i from 0) has that string followed by -i; getNodeId returns the stored id.
C17_IdByBuildPath ==
    Done => /\ b.nodes[1].id = RootId
            /\ \A i \in 1..Len(b.nodes) : getNodeId(b.nodes[i]) = b.nodes[i].id
            /\ \A i \in 2..Len(b.nodes) :
                  b.nodes[i].id = IF b.usedFallback
                                  THEN IdFromFields(b.nodes[i]) \o <<"-">> \o NumToStr(i - 2)
                                  ELSE IdFromFields(b.nodes[i])

\* The fallback built at least two nodes, one of them for a component without a version.
C17_Witness ==
    /\ Done /\ b.usedFallback
    /\ Len(b.nodes) > 2
    /\ \E i \in 1..Len(comps) : comps[i].version = Undefined

\* Queries as handleTreeSearch stores them: empty, matching a name, a description, a
\* version, nothing.
SearchQueries == {<< >>, <<"x", "m">>, <<"a">>, <<"b">>, <<"1", ".">>, <<"z">>}

\* C18: for every node of a loaded tree and every query matchesTreeSearch raises
\* nothing and returns true iff the query is empty or is a substring of the lower-cased
\* name, version or description, a field that is absent matching nothing.
C18_MatchesIsTotal ==
    \A i \in 1..Len(treeData) : \A q \in SearchQueries :
        matchesTreeSearch(treeData[i], q) = IF Matches(treeData[i], q) THEN "true" ELSE "false"

\* C19: in a loaded tree the row of a node below the root is rendered iff the row of
\* its parent is rendered, the parent's id is in the expanded set, and no query is
\* active or the node or one of its descendants matches the query; below a node
\* without a row no row is rendered.
C19_RowIffParentExpandedAndMatch ==
    treeData # << >>
    => /\ \A i \in 2..Len(treeData) :
            IsRendered(i)
            <=> /\ IsRendered(treeData[i].parent)
                /\ getNodeId(treeData[treeData[i].parent]) \in expandedNodes
                /\ ~Truthy(treeSearchQuery) \/ SubtreeMatches(treeData, i, treeSearchQuery)
       /\ \A i \in 1..Len(treeData) :
            ~IsRendered(i) => \A k \in 1..Len(treeData) :
                                 i \in AncestorsOf(treeData, k) => ~IsRendered(k)

\* With a query active, a node at depth 2 is rendered below its expanded parent while
\* a child of the root, with a rendered and expanded parent, is suppressed.
C19_Witness ==
    /\ Truthy(treeSearchQuery)
    /\ \E i \in 2..Len(treeData) : treeData[i].parent # 1 /\ IsRendered(i)
    /\ \E i \in 2..Len(treeData) :
          /\ ~IsRendered(i)
          /\ IsRendered(treeData[i].parent)
          /\ getNodeId(treeData[treeData[i].parent]) \in expandedNodes

\* The dependsOn list of the first dependencies[] entry whose ref is t.
ListOfRef(t) ==
    LET k == FindDep(deps, t)
    IN IF k # 0 /\ deps[k].has_dependsOn THEN deps[k].dependsOn ELSE << >>

\* The document lists x alone under the root reference, y alone under x and x alone
\* under y, and x and y are two components other than the root reference.
CycleDoc(x, y) ==
    /\ x # y /\ Resolvable(x) /\ Resolvable(y)
    /\ b.nodes[1].ref \notin {x, y}
    /\ ListOfRef(b.nodes[1].ref) = <<x>>
    /\ ListOfRef(x) = <<y>>
    /\ ListOfRef(y) = <<x>>

\* The tree is the root, x at depth 1 under the root and y at depth 2 under x.
CycleTree(x, y) ==
    /\ ~b.usedFallback
    /\ Len(b.nodes) = 3
    /\ b.nodes[2].ref = x /\ b.nodes[2].parent = 1 /\ b.nodes[2].depth = 1
    /\ b.nodes[3].ref = y /\ b.nodes[3].parent = 2 /\ b.nodes[3].depth = 2
    /\ ChildrenOf(b.nodes, 3) = {}

\* C20: for a document in which the root depends on x, x on y and y on x, with x and y
\* both in components[], the built tree is the root with the one child x at depth 1, x
\* with the one child y at depth 2, and y without children; and a dependsOn edge to a
\* reference that is already in processedRefs leaves the nodes of the tree as they are.
C20_CycleCutAtSecondVisit ==
    /\ [](Done => \A x, y \in {ComponentKey(comps[i]) : i \in 1..Len(comps)} :
                     CycleDoc(x, y) => CycleTree(x, y))
    /\ [][(buildTree /\ NextCall.ref \in b.processedRefs) => b'.nodes = b.nodes]_vars

\* A build has ended on a document with the cycle root -> x -> y -> x.
C20_Witness ==
    /\ Done
    /\ \E x, y \in {ComponentKey(comps[i]) : i \in 1..Len(comps)} :
          CycleDoc(x, y) /\ CycleTree(x, y) /\ y \in b.processedRefs

\* The overlays an export is compared under: nothing expanded, the root alone, every id.
Overlays(tree) ==
    {[expanded |-> e, pinned |-> p, q |-> q] :
        e \in {{}, {RootId}, AllIds(tree)}, p \in BOOLEAN, q \in TypedValues}

\* C21: the text of an export is the one exportTree writes for the same tree under every
\* other expanded set, pinned flag and query, and it holds a line for every node of the
\* tree, whether the node's row is rendered or not.
C21_ExportIgnoresOverlay ==
    Exported
    => /\ \A o \in Overlays(treeData) :
             Download.lines = ExportLines(treeData, o.expanded, o.pinned, o.q)
       /\ Len(Download.lines) = Len(treeData)
       /\ \A k \in 1..Len(treeData) :
             LET line == Download.lines[k]
                 n == Len(Label(treeData[k]))
             IN Len(line) > n /\ SubSeq(line, Len(line) - n + 1, Len(line)) = Label(treeData[k])

\* A tree was exported while a query suppressed the row of one of its nodes and the
\* row of another node was hidden below a collapsed parent.
C21_Witness ==
    /\ Exported
    /\ Truthy(treeSearchQuery)
    /\ \E i \in 2..Len(treeData) :
          ~IsRendered(i) /\ ~SubtreeMatches(treeData, i, treeSearchQuery)
    /\ \E i \in 2..Len(treeData) :
          /\ ~IsRendered(i) /\ SubtreeMatches(treeData, i, treeSearchQuery)
          /\ getNodeId(treeData[treeData[i].parent]) \notin expandedNodes
    /\ Len(Download.lines) = Len(treeData)

\* The handlers of the overlay and of the projections, as recorded in last.op.
OverlayOps == {"collapse", "expand", "expandAll", "collapseAll", "search", "clear",
               "select", "export"}

\* C22: toggling a row, expandAll, collapseAll, a change of the query and an export,
\* each with the render it ends in, leave treeData as it was: the same nodes with the
\* same fields in the same order under the same parents; and the tree a load leaves,
\* after the stats, the suggestions and the first render, is the tree parseCycloneDX
\* built.
C22_OverlayLeavesTree ==
    [][/\ last'.op \in OverlayOps => treeData' = treeData
       /\ (last'.op = "resolve" /\ treeData' # treeData)
          => \E inp \in pending : treeData' = Parsed[inp].nodes]_vars

\* With a query active, collapseAllTree() has rendered a tree that has nodes at depth 2
\* and a root with two children, and the tree is the one that was built.
C22_Witness ==
    /\ last.op = "collapseAll" /\ last.render = "yes"
    /\ Truthy(treeSearchQuery)
    /\ \E i \in 2..Len(treeData) : treeData[i].parent # 1
    /\ Cardinality(ChildrenOf(treeData, 1)) > 1
    /\ \E inp \in page.inputs : treeData = Parsed[inp].nodes

\* ------------------------------------------------ claims about the script

\* C23 (as stated): no SBOM file that existed below docs/sboms/ when the run started is
\* written by the run, whatever the source types of the products.
C23_ExistingSbomsKept ==
    \A f \in sh.manual : IsSbomFile(f) => f \notin sh.written

\* C24 (as stated): every line a fetch function wrote to stdout is a downloaded path, a
\* "|" and a version that is not empty, and every call of generate_sboms_for_artifact
\* was made with a downloaded path and a version that is not empty.
C24_StdoutIsArtifactLines ==
    /\ \A line \in sh.stdout :
          /\ ReadLine(line).artifact_path \in sh.downloaded
          /\ ReadLine(line).version # << >>
    /\ \A c \in sh.calls : c.artifact_path \in sh.downloaded /\ c.version # << >>

\* The name holds "../" or "./".
NamesTraversal(name) ==
    includes(name, <<".", ".", "/">>) \/ includes(name, <<".", "/">>)

\* C25 (as stated): while the configuration holds a product whose name contains "../"
\* or "./", the run is validating or has exited with code 1, and has written nothing.
C25_TraversalNamesRejected ==
    (\E k \in 1..Len(sh.config) : NamesTraversal(sh.config[k].name))
    => /\ sh.pc \in {"validate", "exit"}
       /\ sh.pc = "exit" => sh.code = 1
       /\ sh.written = {}

\* The run has passed validate_config.
Validated == sh.pc \in {"product", "fetch", "generate", "done"}

\* C26 (as stated): once the configuration has passed validation, the slug of every
\* product is not empty, is not "." or "..", holds no "/", and differs from the slug of
\* every other product.
C26_SlugsAreDistinctChildren ==
    Validated
    => \A k \in 1..Len(sh.config) :
          /\ SlugOf(sh, k) \notin {<< >>, <<".">>, DotDot}
          /\ ~includes(SlugOf(sh, k), <<"/">>)
          /\ \A j \in 1..Len(sh.config) : j # k => SlugOf(sh, j) # SlugOf(sh, k)

\* ------------------------------------------------ more claims about the modal

\* The queries renderTree() is evaluated under.
RenderQueries == {toLowerCase(trim(v)) : v \in TypedValues}

\* C27: renderTree(), run on the tree and the expanded set of any reachable state under
\* any query and pinned flag, returns or raises with an expanded set that holds every
\* id it held before, and with the same set when the query is empty or the flag is set;
\* and the render of clearTreeSearch() leaves the set as it was.
C27_RenderOnlyAddsWhenSearching ==
    /\ [](\A q \in RenderQueries \cup {treeSearchQuery} : \A pinned \in BOOLEAN :
            LET r == renderTree(treeData, expandedNodes, q, pinned, rendered)
            IN /\ expandedNodes \subseteq r.expanded
               /\ (~Truthy(q) \/ pinned) => r.expanded = expandedNodes)
    /\ [][clearTreeSearch => expandedNodes' = expandedNodes]_vars

\* collapseAllTree() has rendered under a query with the flag set: a node on the path to
\* a match stays collapsed, and the same render with the flag unset would add its id.
C27_Witness ==
    /\ last.op = "collapseAll" /\ last.render = "yes"
    /\ userExpandedAll /\ Truthy(treeSearchQuery)
    /\ \E i \in 2..Len(treeData) :
          /\ SubtreeMatches(treeData, i, treeSearchQuery)
          /\ ChildrenOf(treeData, i) # {}
          /\ getNodeId(treeData[i]) \notin expandedNodes
          /\ getNodeId(treeData[i])
               \in renderTree(treeData, expandedNodes, treeSearchQuery, FALSE, rendered).expanded

\* ------------------------------------------------ more claims about the build

\* The key of a component as specified: its purl, else its bom-ref, else its name.
KeyAsSpecified(comp) ==
    IF Truthy(comp.purl) THEN comp.purl
    ELSE IF Truthy(comp.bomref) THEN comp.bomref
    ELSE comp.name

SpecifiedKeys == {KeyAsSpecified(comps[k]) : k \in 1..Len(comps)}

\* C28: a node built from the graph has the key of a component as its reference; a
\* component that has a purl gets no node under its bom-ref, however often the bom-ref
\* is listed, unless the bom-ref is the key of a component too; a component without a
\* purl gets a node under its bom-ref once the bom-ref has been visited; and when the
\* root component has a purl, a dependencies[] entry filed under its bom-ref alone is
\* not found, so that no buildTree call is made.
C28_BomRefOnlyWithoutPurl ==
    /\ ~b.usedFallback => \A i \in 2..Len(b.nodes) : b.nodes[i].ref \in SpecifiedKeys
    /\ \A k \in 1..Len(comps) :
          /\ (Truthy(comps[k].purl) /\ Truthy(comps[k].bomref)
                /\ comps[k].bomref \notin SpecifiedKeys)
             => \A i \in 2..Len(b.nodes) : b.nodes[i].ref # comps[k].bomref
          /\ (~Truthy(comps[k].purl) /\ Truthy(comps[k].bomref)
                /\ comps[k].bomref \in b.processedRefs /\ ~b.error)
             => \E i \in 2..Len(b.nodes) :
                   b.nodes[i].ref = comps[k].bomref /\ ~b.usedFallback
    /\ (in.sbom.metadata.has_component /\ Truthy(in.sbom.metadata.component.purl)
          /\ \A k \in 1..Len(deps) : deps[k].ref # in.sbom.metadata.component.purl)
       => b.calls = 0

\* A build has ended in which the bom-ref of a component that has a purl was visited and
\* gave no node, and the bom-ref of a component without a purl gave one.
C28_Witness ==
    /\ Done /\ ~b.usedFallback
    /\ \E k \in 1..Len(comps) :
          /\ Truthy(comps[k].purl) /\ Truthy(comps[k].bomref)
          /\ comps[k].bomref \in b.processedRefs
          /\ \A i \in 2..Len(b.nodes) : b.nodes[i].ref # comps[k].bomref
    /\ \E k \in 1..Len(comps) :
          /\ ~Truthy(comps[k].purl) /\ Truthy(comps[k].bomref)
          /\ \E i \in 2..Len(b.nodes) :
                b.nodes[i].ref = comps[k].bomref /\ b.nodes[i].name = comps[k].name

\* C29: the tree never has more nodes below the root than components[] has entries;
\* a tree built from the graph has at most one node for each key of the component
\* index, and a tree built by the fallback has min(100, |components|) nodes below the
\* root.
C29_NodesBoundedByComponents ==
    /\ Len(b.nodes) <= Len(comps) + 1
    /\ ~b.usedFallback
       => \A t \in DOMAIN componentMap(in.sbom) : Cardinality(NodesWithRef(t)) <= 1
    /\ b.usedFallback
       => Len(b.nodes) - 1 = (IF Len(comps) < 100 THEN Len(comps) ELSE 100)

\* A build from the graph has ended with as many nodes below the root as components,
\* one of them listed by two nodes of the tree.
C29_Witness ==
    /\ Done /\ ~b.usedFallback
    /\ Len(b.nodes) - 1 = Len(comps)
    /\ \E i, j \in 1..Len(b.nodes) :
          i # j /\ \E t \in Range(ListOf(i)) \cap Range(ListOf(j)) : Resolvable(t)

\* ------------------------------------------------ claims about twin nodes

\* Nodes i and j of the current tree are two nodes below the root with the same name,
\* version and depth.
Twins(i, j) ==
    /\ i \in 2..Len(treeData) /\ j \in 2..Len(treeData) /\ i # j
    /\ treeData[i].name = treeData[j].name
    /\ treeData[i].version = treeData[j].version
    /\ treeData[i].depth = treeData[j].depth

\* The current tree was built by the flat fallback.
FallbackBuilt == \E inp \in LoadedInputs : Parsed[inp].usedFallback

\* The rows of all children of node i are in #tree-content.
ShowsChildren(rows, i) == ChildrenOf(treeData, i) \subseteq rows

\* C30 (as stated): two nodes with the same name, version and depth have the same id,
\* and so are in the expanded set together or not at all.
C30_TwinsShareId ==
    \A i, j \in 1..Len(treeData) :
        Twins(i, j) => /\ getNodeId(treeData[i]) = getNodeId(treeData[j])
                       /\ getNodeId(treeData[i]) \in expandedNodes
                          <=> getNodeId(treeData[j]) \in expandedNodes

\* C30 (amended): two nodes built from the dependency graph with the same name, version
\* and depth have the same id; without a query their rows show their children together
\* or not at all, and a click on either row flips both.  Two such nodes built by the
\* flat fallback have different ids, and a click on one leaves the other's id as it was.
C30_GraphTwinsShareState ==
    /\ [](\A i, j \in 1..Len(treeData) :
            Twins(i, j) =>
               IF FallbackBuilt THEN getNodeId(treeData[i]) # getNodeId(treeData[j])
               ELSE /\ getNodeId(treeData[i]) = getNodeId(treeData[j])
                    /\ (~Truthy(treeSearchQuery) /\ IsRendered(i) /\ IsRendered(j))
                       => (ShowsChildren(rendered.rows, i) <=> ShowsChildren(rendered.rows, j)))
    /\ [][\A nodeId \in RowIds :
            toggleTreeNode(nodeId) =>
               \A i, j \in 1..Len(treeData) :
                  (Twins(i, j) /\ getNodeId(treeData[i]) = nodeId) =>
                     IF FallbackBuilt
                     THEN getNodeId(treeData[j]) \in expandedNodes'
                          <=> getNodeId(treeData[j]) \in expandedNodes
                     ELSE (~Truthy(treeSearchQuery) /\ last'.render = "yes")
                          => /\ ShowsChildren(rendered'.rows, j)
                                <=> ~ShowsChildren(rendered.rows, j)
                             /\ ShowsChildren(rendered'.rows, i)
                                <=> ~ShowsChildren(rendered.rows, i)]_vars

\* The row of one of two graph-built nodes with the same id was clicked and the children
\* of both were hidden.
C30_Witness ==
    /\ last.op = "collapse" /\ last.render = "yes"
    /\ ~FallbackBuilt /\ ~Truthy(treeSearchQuery)
    /\ \E i, j \in 1..Len(treeData) :
          /\ Twins(i, j) /\ getNodeId(treeData[i]) = last.id
          /\ IsRendered(i) /\ IsRendered(j)
          /\ ChildrenOf(treeData, i) # {} /\ ChildrenOf(treeData, j) # {}
          /\ ChildrenOf(treeData, i) \cap rendered.rows = {}
          /\ ChildrenOf(treeData, j) \cap rendered.rows = {}

====
